---- MODULE Spec2Model ----
(***************************************************************************)
(* The in-memory repository store of TutorEase (MemStorage, server/storage) *)
(* and the route handlers of server/routes.ts that call it.                 *)
(*                                                                         *)
(* Spec      the store driven by one caller at a time: every store         *)
(*           operation and every single-call route handler is one step.    *)
(* SpecConc  request handlers as processes that suspend at their awaits.   *)
(***************************************************************************)
EXTENDS Integers, Sequences, FiniteSets, TLC

VARIABLES
    db,         \* the ten Map fields of MemStorage, by field name
    uuidCount,  \* how many UUIDs randomUUID has handed out
    now,        \* the last value new Date() returned
    ret,        \* the last call: its name, arguments and returned value
    ops,        \* number of calls made so far (bounds the exploration)
    issued,     \* history: every id handed to a seeded or created record
    shadow,     \* history: per collection, what the callers were told is stored
    pc,         \* SpecConc: where each request handler is suspended
    frame       \* SpecConc: the locals of each suspended handler

vars == <<db, uuidCount, now, ret, ops, issued, shadow, pc, frame>>

----------------------------------------------------------------------------
(* Bounds of the exploration *)

MaxOps == 2
MaxBatch == 2

----------------------------------------------------------------------------
(* Values *)

null == "<null>"
NullNumber == -1
undefined == [undefined |-> TRUE]
DayMs == 24 * 60 * 60 * 1000
WeekMs == 7 * DayMs
NoSuchId == "no-such-id"

Uuid(n) == "uuid-" \o ToString(n)

\* crypto.randomUUID(): a value that no earlier call returned.
randomUUIDWrapping(count) == Uuid((count % 8) + 1)

randomUUID(count) == Uuid(count + 1)

----------------------------------------------------------------------------
(* Object spread and the built-in Map, which keeps insertion order *)

\* { ...a, ...b }
SpreadDroppingRest(a, b) == b

Spread(a, b) ==
    [f \in (DOMAIN a) \cup (DOMAIN b) |-> IF f \in DOMAIN b THEN b[f] ELSE a[f]]

Entry(k, v) == [k |-> k, v |-> v]

MapHas(m, k) == \E i \in 1..Len(m) : m[i].k = k

MapGet(m, k) ==
    IF MapHas(m, k) THEN m[CHOOSE i \in 1..Len(m) : m[i].k = k].v ELSE undefined

MapSetAppending(m, k, v) == Append(m, Entry(k, v))

MapSet(m, k, v) ==
    IF MapHas(m, k)
    THEN [i \in 1..Len(m) |-> IF m[i].k = k THEN Entry(k, v) ELSE m[i]]
    ELSE Append(m, Entry(k, v))

MapDeleteKeeping(m, k) == m

MapDelete(m, k) == SelectSeq(m, LAMBDA e : e.k # k)

MapValues(m) == [i \in 1..Len(m) |-> m[i].v]

MapKeys(m) == {m[i].k : i \in 1..Len(m)}

Range(s) == {s[i] : i \in 1..Len(s)}

Collections ==
    {"users", "students", "classes", "attendance", "fees", "homework",
     "homeworkSubmissions", "announcements", "systemLogs", "systemSettings"}

----------------------------------------------------------------------------
(* seedData: the records the constructor stores *)

SeedAdmin(t) ==
    [id |-> randomUUID(0), email |-> "admin@edumanage.com", password |-> "admin123",
     name |-> "System Administrator", role |-> "admin", avatar |-> null,
     isActive |-> TRUE, lastLogin |-> t, createdAt |-> t]

SeedTutor(t) ==
    [id |-> randomUUID(1), email |-> "tutor@edumanage.com", password |-> "password123",
     name |-> "Sarah Johnson", role |-> "tutor", avatar |-> null,
     isActive |-> TRUE, lastLogin |-> t, createdAt |-> t]

SeedStudent1(t) ==
    [id |-> randomUUID(2), name |-> "Alex Chen", email |-> "alex.chen@email.com",
     rollNumber |-> "101", grade |-> "Grade 10", subjects |-> <<"Mathematics">>,
     parentId |-> null, tutorId |-> randomUUID(1), avatar |-> null, createdAt |-> t]

SeedStudent2(t) ==
    [id |-> randomUUID(3), name |-> "Emma Wilson", email |-> "emma.wilson@email.com",
     rollNumber |-> "102", grade |-> "Grade 11", subjects |-> <<"Physics">>,
     parentId |-> null, tutorId |-> randomUUID(1), avatar |-> null, createdAt |-> t]

SeedClass(t) ==
    [id |-> randomUUID(4), name |-> "Mathematics Grade 10", subject |-> "Mathematics",
     grade |-> "Grade 10", tutorId |-> randomUUID(1),
     schedule |-> <<[day |-> "Monday", time |-> "2:00 PM"],
                    [day |-> "Wednesday", time |-> "2:00 PM"]>>,
     studentIds |-> <<randomUUID(2)>>, feeAmount |-> "250.00", createdAt |-> t]

SeedFee(t) ==
    [id |-> randomUUID(5), studentId |-> randomUUID(2), classId |-> randomUUID(4),
     amount |-> "250.00", dueDate |-> t + WeekMs, paidDate |-> t,
     status |-> "paid", month |-> "2024-11", createdAt |-> t]

SeedHomework(t) ==
    [id |-> randomUUID(6), title |-> "Chapter 5: Quadratic Equations",
     description |-> "Complete exercises 5.1 to 5.5 from the textbook.",
     classId |-> randomUUID(4), tutorId |-> randomUUID(1), dueDate |-> t + WeekMs,
     assignedDate |-> t, status |-> "active", totalStudents |-> 1,
     submittedCount |-> 0]

SeedCount == 7

seedData(t) ==
    [users |-> MapSet(MapSet(<<>>, randomUUID(0), SeedAdmin(t)), randomUUID(1), SeedTutor(t)),
     students |-> MapSet(MapSet(<<>>, randomUUID(2), SeedStudent1(t)), randomUUID(3), SeedStudent2(t)),
     classes |-> MapSet(<<>>, randomUUID(4), SeedClass(t)),
     attendance |-> <<>>,
     fees |-> MapSet(<<>>, randomUUID(5), SeedFee(t)),
     homework |-> MapSet(<<>>, randomUUID(6), SeedHomework(t)),
     homeworkSubmissions |-> <<>>,
     announcements |-> <<>>,
     systemLogs |-> <<>>,
     systemSettings |-> <<>>]

\* What a caller knows of a freshly seeded store: each key with its record.
AsFunction(m) == [k \in MapKeys(m) |-> MapGet(m, k)]

Procs == {1, 2}

Init ==
    /\ db = seedData(0)
    /\ uuidCount = SeedCount
    /\ now = 0
    /\ ret = [op |-> "constructor"]
    /\ ops = 0
    /\ issued = [i \in 1..SeedCount |-> randomUUID(i - 1)]
    /\ shadow = [c \in Collections |-> AsFunction(seedData(0)[c])]
    /\ pc = [p \in Procs |-> "idle"]
    /\ frame = [p \in Procs |-> <<>>]

----------------------------------------------------------------------------
(* Inputs: the payloads the callers pass.  Optional columns of an insert    *)
(* schema may be left out of a payload, and a payload may carry an id and a *)
(* timestamp of its own; a PUT body is any JSON object.                     *)

InsertUsers ==
    {[email |-> "parent@edumanage.com", password |-> "secret", name |-> "Pat Parent",
      role |-> "parent", avatar |-> null, isActive |-> FALSE, lastLogin |-> 0,
      id |-> Uuid(1), createdAt |-> WeekMs],
     [email |-> "admin@edumanage.com", password |-> "other", name |-> "Second Admin",
      role |-> "tutor"]}

InsertStudents ==
    {[name |-> "Noah Kim", email |-> "noah.kim@email.com", rollNumber |-> "103",
      grade |-> "Grade 10", subjects |-> <<"Mathematics">>, parentId |-> null,
      tutorId |-> Uuid(2), avatar |-> null, id |-> Uuid(3), createdAt |-> WeekMs]}

InsertClasses ==
    {[name |-> "Physics Grade 11", subject |-> "Physics", grade |-> "Grade 11",
      tutorId |-> Uuid(2), schedule |-> <<[day |-> "Friday", time |-> "4:00 PM"]>>,
      studentIds |-> <<Uuid(4)>>, feeAmount |-> "300.00", id |-> Uuid(5),
      createdAt |-> WeekMs],
     [name |-> "Chemistry Grade 11", subject |-> "Chemistry", grade |-> "Grade 11",
      tutorId |-> Uuid(1), schedule |-> <<>>, feeAmount |-> "300.00"]}

AttendanceA ==
    [classId |-> Uuid(5), studentId |-> Uuid(3), date |-> 0, status |-> "present",
     notes |-> null, id |-> Uuid(1), createdAt |-> WeekMs]
AttendanceB ==
    [classId |-> Uuid(5), studentId |-> Uuid(4), date |-> DayMs + 1, status |-> "absent"]

InsertAttendances == {AttendanceA, AttendanceB}

InsertFees ==
    {[studentId |-> Uuid(4), classId |-> Uuid(5), amount |-> "250.00",
      dueDate |-> WeekMs, paidDate |-> NullNumber, status |-> "pending",
      month |-> "2024-11", id |-> Uuid(6), createdAt |-> WeekMs],
     [studentId |-> Uuid(3), classId |-> Uuid(5), amount |-> "100.50",
      dueDate |-> WeekMs, month |-> "2024-12"]}

InsertHomeworks ==
    {[title |-> "Chapter 6", description |-> "Exercises 6.1", classId |-> Uuid(5),
      tutorId |-> Uuid(2), dueDate |-> WeekMs, status |-> "active",
      totalStudents |-> 1, submittedCount |-> 0, id |-> Uuid(7),
      assignedDate |-> WeekMs]}

InsertHomeworkSubmissions ==
    {[homeworkId |-> Uuid(7), studentId |-> Uuid(3), submissionText |-> "answers",
      fileUrl |-> null, grade |-> NullNumber, feedback |-> null, status |-> "submitted",
      id |-> Uuid(1), submittedAt |-> WeekMs]}

InsertAnnouncements ==
    {[title |-> "Holiday", message |-> "No class on Friday", tutorId |-> Uuid(2),
      targetAudience |-> "all", classIds |-> <<Uuid(5)>>, isImportant |-> FALSE,
      id |-> Uuid(1), createdAt |-> WeekMs]}

InsertSystemLogs ==
    {[adminId |-> Uuid(1), action |-> "fee_updated", targetType |-> "fee",
      targetId |-> Uuid(6), details |-> [note |-> "manual"], ipAddress |-> null,
      id |-> Uuid(1), createdAt |-> WeekMs]}

InsertSystemSettings ==
    {[key |-> "site_name", value |-> "EduManage", description |-> null,
      category |-> "general", updatedBy |-> Uuid(1), id |-> Uuid(1),
      updatedAt |-> WeekMs]}

\* Partial<Insert...> payloads of the update operations
UserPatches == {[role |-> "parent"], [isActive |-> FALSE, name |-> "Renamed"]}
StudentPatches == {[grade |-> "Grade 12"]}
ClassPatches == {[studentIds |-> <<Uuid(3), Uuid(4)>>], <<>>}
AttendancePatches == {[status |-> "late"]}
FeePatches == {[status |-> "paid"], [status |-> "pending"]}
HomeworkPatches == {[status |-> "completed"]}
HomeworkSubmissionPatches == {[grade |-> 90]}
AnnouncementPatches == {[isImportant |-> TRUE]}
SystemSettingPatches == {[value |-> "TutorEase"]}

\* req.body of the PUT routes, which is handed to the store as it arrives
StudentBodies ==
    {[grade |-> "Grade 9"], [id |-> Uuid(1), name |-> "Mallory", createdAt |-> WeekMs]}
FeeBodies == {[status |-> "overdue", id |-> NoSuchId]}

\* ids a caller may pass: those of the stored records, those of records that
\* were deleted, and one that was never issued
Gone == Range(issued) \ UNION {MapKeys(db[c]) : c \in Collections}

Ids(coll) == MapKeys(db[coll]) \cup Gone \cup {NoSuchId}

----------------------------------------------------------------------------
(* The shapes every store mutation takes *)

\* new Date(): the clock has millisecond resolution and does not run backwards,
\* so a reading equals the previous one or is later.
NewDate == {now, now + 1}

ShadowSet(coll, k, v) ==
    [shadow EXCEPT ![coll] =
        [x \in (DOMAIN @) \cup {k} |-> IF x = k THEN v ELSE @[x]]]

ShadowDel(coll, k) ==
    [shadow EXCEPT ![coll] = [x \in (DOMAIN @) \ {k} |-> @[x]]]

Returned(op, coll, key, arg, value) ==
    [op |-> op, coll |-> coll, key |-> key, arg |-> arg, value |-> value]

InsertUnstored(op, coll, data, rec) ==
    /\ ops < MaxOps
    /\ now' \in NewDate
    /\ uuidCount' = uuidCount + 1
    /\ ret' = Returned(op, coll, rec.id, data, rec)
    /\ ops' = ops + 1
    /\ issued' = Append(issued, rec.id)
    /\ UNCHANGED <<db, shadow, pc, frame>>

\* this.<coll>.set(id, rec); return rec      (rec carries a fresh id)
Insert(op, coll, data, rec) ==
    /\ ops < MaxOps
    /\ now' \in NewDate
    /\ db' = [db EXCEPT ![coll] = MapSet(@, rec.id, rec)]
    /\ uuidCount' = uuidCount + 1
    /\ ret' = Returned(op, coll, rec.id, data, rec)
    /\ ops' = ops + 1
    /\ issued' = Append(issued, rec.id)
    /\ shadow' = ShadowSet(coll, rec.id, rec)
    /\ UNCHANGED <<pc, frame>>

AbsentUpserting(op, coll, id, patch) ==
    /\ ops < MaxOps
    /\ db' = [db EXCEPT ![coll] = MapSet(@, id, patch)]
    /\ ret' = Returned(op, coll, id, patch, patch)
    /\ ops' = ops + 1
    /\ UNCHANGED <<uuidCount, now, issued, shadow, pc, frame>>

\* if (!existing) return undefined
Absent(op, coll, id, patch) ==
    /\ ops < MaxOps
    /\ ret' = Returned(op, coll, id, patch, undefined)
    /\ ops' = ops + 1
    /\ UNCHANGED <<db, uuidCount, now, issued, shadow, pc, frame>>

\* this.<coll>.set(id, updated); return updated
Replace(op, coll, id, patch, updated) ==
    /\ ops < MaxOps
    /\ db' = [db EXCEPT ![coll] = MapSet(@, id, updated)]
    /\ ret' = Returned(op, coll, id, patch, updated)
    /\ ops' = ops + 1
    /\ shadow' = ShadowSet(coll, id, updated)
    /\ UNCHANGED <<uuidCount, now, issued, pc, frame>>

\* the same, of an operation that reads the clock
ReplaceAt(op, coll, id, patch, updated) ==
    /\ ops < MaxOps
    /\ now' \in NewDate
    /\ db' = [db EXCEPT ![coll] = MapSet(@, id, updated)]
    /\ ret' = Returned(op, coll, id, patch, updated)
    /\ ops' = ops + 1
    /\ shadow' = ShadowSet(coll, id, updated)
    /\ UNCHANGED <<uuidCount, issued, pc, frame>>

\* return this.<coll>.delete(id)
Remove(op, coll, id) ==
    /\ ops < MaxOps
    /\ db' = [db EXCEPT ![coll] = MapDelete(@, id)]
    /\ ret' = Returned(op, coll, id, <<>>, MapHas(db[coll], id))
    /\ ops' = ops + 1
    /\ shadow' = IF MapHas(db[coll], id) THEN ShadowDel(coll, id) ELSE shadow
    /\ UNCHANGED <<uuidCount, now, issued, pc, frame>>

----------------------------------------------------------------------------
(* Point lookups *)

getUser(id) == MapGet(db.users, id)
getStudent(id) == MapGet(db.students, id)
getClass(id) == MapGet(db.classes, id)
getAttendance(id) == MapGet(db.attendance, id)
getFee(id) == MapGet(db.fees, id)
getHomework(id) == MapGet(db.homework, id)
getHomeworkSubmission(id) == MapGet(db.homeworkSubmissions, id)
getAnnouncement(id) == MapGet(db.announcements, id)
getSystemLog(id) == MapGet(db.systemLogs, id)
getSystemSetting(id) == MapGet(db.systemSettings, id)

\* get(id) of the collection a call worked on
Get(coll, id) ==
    CASE coll = "users" -> getUser(id)
      [] coll = "students" -> getStudent(id)
      [] coll = "classes" -> getClass(id)
      [] coll = "attendance" -> getAttendance(id)
      [] coll = "fees" -> getFee(id)
      [] coll = "homework" -> getHomework(id)
      [] coll = "homeworkSubmissions" -> getHomeworkSubmission(id)
      [] coll = "announcements" -> getAnnouncement(id)
      [] coll = "systemLogs" -> getSystemLog(id)
      [] coll = "systemSettings" -> getSystemSetting(id)

(* getAll: Array.from(map.values()) *)

getAllUsers == MapValues(db.users)
getAllStudents == MapValues(db.students)
getAllClasses == MapValues(db.classes)
getAllFees == MapValues(db.fees)
getAllHomework == MapValues(db.homework)
getAllAnnouncements == MapValues(db.announcements)
getAllSystemSettings == MapValues(db.systemSettings)

----------------------------------------------------------------------------
(* Users *)

createUserFirstDefinition(user) ==
    Insert("createUser", "users", user,
           Spread(user, [id |-> randomUUID(uuidCount), createdAt |-> now']))

\* The class defines createUser twice; the later definition is the one in effect.
createUser(user) ==
    Insert("createUser", "users", user,
           Spread(user, [id |-> randomUUID(uuidCount), isActive |-> TRUE,
                         lastLogin |-> NullNumber, createdAt |-> now']))

updateUser(id, user) ==
    LET existing == MapGet(db.users, id) IN
    IF existing = undefined
    THEN Absent("updateUser", "users", id, user)
    ELSE Replace("updateUser", "users", id, user, Spread(existing, user))

updateUserStatus(id, isActive) ==
    LET existing == MapGet(db.users, id) IN
    IF existing = undefined
    THEN Absent("updateUserStatus", "users", id, [isActive |-> isActive])
    ELSE Replace("updateUserStatus", "users", id, [isActive |-> isActive],
                 Spread(existing, [isActive |-> isActive]))

deleteUser(id) == Remove("deleteUser", "users", id)

(* Student *)

createStudent(student) ==
    Insert("createStudent", "students", student,
           Spread(student, [id |-> randomUUID(uuidCount), createdAt |-> now']))

updateStudent(id, student) ==
    LET existing == MapGet(db.students, id) IN
    IF existing = undefined
    THEN Absent("updateStudent", "students", id, student)
    ELSE Replace("updateStudent", "students", id, student, Spread(existing, student))

deleteStudentCascading(id) ==
    /\ ops < MaxOps
    /\ db' = [db EXCEPT !.students = MapDelete(@, id),
                        !.fees = SelectSeq(@, LAMBDA e : e.v.studentId # id)]
    /\ ret' = Returned("deleteStudent", "students", id, <<>>, MapHas(db.students, id))
    /\ ops' = ops + 1
    /\ UNCHANGED <<uuidCount, now, issued, shadow, pc, frame>>

deleteStudent(id) == Remove("deleteStudent", "students", id)

(* Class *)

createClass(classData) ==
    Insert("createClass", "classes", classData,
           Spread(classData, [id |-> randomUUID(uuidCount), createdAt |-> now']))

updateClass(id, classData) ==
    LET existing == MapGet(db.classes, id) IN
    IF existing = undefined
    THEN Absent("updateClass", "classes", id, classData)
    ELSE Replace("updateClass", "classes", id, classData, Spread(existing, classData))

deleteClass(id) == Remove("deleteClass", "classes", id)

(* Attendance *)

createAttendance(attendance) ==
    Insert("createAttendance", "attendance", attendance,
           Spread(attendance, [id |-> randomUUID(uuidCount), createdAt |-> now']))

updateAttendance(id, attendance) ==
    LET existing == MapGet(db.attendance, id) IN
    IF existing = undefined
    THEN Absent("updateAttendance", "attendance", id, attendance)
    ELSE Replace("updateAttendance", "attendance", id, attendance, Spread(existing, attendance))

(* Fee *)

createFee(fee) ==
    Insert("createFee", "fees", fee,
           Spread(fee, [id |-> randomUUID(uuidCount), createdAt |-> now']))

updateFeeForwardOnly(id, fee) ==
    LET existing == MapGet(db.fees, id) IN
    IF existing = undefined \/ (existing.status = "paid" /\ fee = [status |-> "pending"])
    THEN Absent("updateFee", "fees", id, fee)
    ELSE Replace("updateFee", "fees", id, fee, Spread(existing, fee))

updateFee(id, fee) ==
    LET existing == MapGet(db.fees, id) IN
    IF existing = undefined
    THEN Absent("updateFee", "fees", id, fee)
    ELSE Replace("updateFee", "fees", id, fee, Spread(existing, fee))

deleteFee(id) == Remove("deleteFee", "fees", id)

(* Homework *)

createHomeworkCallerFirst(homework) ==
    Insert("createHomework", "homework", homework,
           Spread([id |-> randomUUID(uuidCount), assignedDate |-> now'], homework))

createHomework(homework) ==
    Insert("createHomework", "homework", homework,
           Spread(homework, [id |-> randomUUID(uuidCount), assignedDate |-> now']))

updateHomework(id, homework) ==
    LET existing == MapGet(db.homework, id) IN
    IF existing = undefined
    THEN Absent("updateHomework", "homework", id, homework)
    ELSE Replace("updateHomework", "homework", id, homework, Spread(existing, homework))

deleteHomework(id) == Remove("deleteHomework", "homework", id)

(* HomeworkSubmission *)

createHomeworkSubmission(submission) ==
    Insert("createHomeworkSubmission", "homeworkSubmissions", submission,
           Spread(submission, [id |-> randomUUID(uuidCount), submittedAt |-> now']))

updateHomeworkSubmission(id, submission) ==
    LET existing == MapGet(db.homeworkSubmissions, id) IN
    IF existing = undefined
    THEN Absent("updateHomeworkSubmission", "homeworkSubmissions", id, submission)
    ELSE Replace("updateHomeworkSubmission", "homeworkSubmissions", id, submission, Spread(existing, submission))

(* Announcement *)

createAnnouncement(announcement) ==
    Insert("createAnnouncement", "announcements", announcement,
           Spread(announcement, [id |-> randomUUID(uuidCount), createdAt |-> now']))

updateAnnouncement(id, announcement) ==
    LET existing == MapGet(db.announcements, id) IN
    IF existing = undefined
    THEN Absent("updateAnnouncement", "announcements", id, announcement)
    ELSE Replace("updateAnnouncement", "announcements", id, announcement, Spread(existing, announcement))

deleteAnnouncement(id) == Remove("deleteAnnouncement", "announcements", id)

(* SystemLog *)

createSystemLogRotating(log) ==
    LET newLog == Spread(log, [id |-> randomUUID(uuidCount), createdAt |-> now']) IN
    /\ ops < MaxOps
    /\ now' \in NewDate
    /\ db' = [db EXCEPT !.systemLogs = <<Entry(newLog.id, newLog)>>]
    /\ uuidCount' = uuidCount + 1
    /\ ret' = Returned("createSystemLog", "systemLogs", newLog.id, log, newLog)
    /\ ops' = ops + 1
    /\ issued' = Append(issued, newLog.id)
    /\ UNCHANGED <<shadow, pc, frame>>

createSystemLog(log) ==
    Insert("createSystemLog", "systemLogs", log,
           Spread(log, [id |-> randomUUID(uuidCount), createdAt |-> now']))

(* SystemSetting *)

createSystemSetting(setting) ==
    Insert("createSystemSetting", "systemSettings", setting,
           Spread(setting, [id |-> randomUUID(uuidCount), updatedAt |-> now']))

updateSystemSetting(id, setting) ==
    LET existing == MapGet(db.systemSettings, id) IN
    IF existing = undefined
    THEN Absent("updateSystemSetting", "systemSettings", id, setting)
    ELSE ReplaceAt("updateSystemSetting", "systemSettings", id, setting,
                   Spread(Spread(existing, setting), [updatedAt |-> now']))

deleteSystemSetting(id) == Remove("deleteSystemSetting", "systemSettings", id)

----------------------------------------------------------------------------
(* bulkCreateAttendance: createAttendance on each element, in input order *)

\* the record createAttendance builds when `count` UUIDs are out and the clock reads t
newAttendance(attendance, count, t) ==
    Spread(attendance, [id |-> randomUUID(count), createdAt |-> t])

RECURSIVE bulkLoop(_, _, _, _)
\* for (const att of attendanceList) { created = await createAttendance(att); results.push(created) }
\* times[i] is what new Date() returns in the i-th createAttendance.
bulkLoopReversed(attendanceList, m, count, times) ==
    IF attendanceList = <<>>
    THEN [map |-> m, count |-> count, results |-> <<>>]
    ELSE LET created == newAttendance(Head(attendanceList), count, Head(times))
             rest == bulkLoop(Tail(attendanceList), MapSet(m, created.id, created),
                              count + 1, Tail(times))
         IN  [rest EXCEPT !.results = Append(@, created)]

bulkLoop(attendanceList, m, count, times) ==
    IF attendanceList = <<>>
    THEN [map |-> m, count |-> count, results |-> <<>>]
    ELSE LET created == newAttendance(Head(attendanceList), count, Head(times))
             rest == bulkLoop(Tail(attendanceList), MapSet(m, created.id, created),
                              count + 1, Tail(times))
         IN  [rest EXCEPT !.results = <<created>> \o @]

\* n successive readings of the clock, the first one not before t
RECURSIVE Readings(_, _)
Readings(t, n) ==
    IF n = 0 THEN {<<>>}
    ELSE {<<u>> \o r : u \in {t}, r \in Readings(t, n - 1)}
         \cup {<<u>> \o r : u \in {t + 1}, r \in Readings(t + 1, n - 1)}

LastReading(times) == IF times = <<>> THEN now ELSE times[Len(times)]

RECURSIVE ShadowAll(_, _, _)
ShadowAll(sh, coll, recs) ==
    IF recs = <<>> THEN sh
    ELSE ShadowAll([sh EXCEPT ![coll] =
                       [x \in (DOMAIN @) \cup {Head(recs).id} |->
                           IF x = Head(recs).id THEN Head(recs) ELSE @[x]]],
                   coll, Tail(recs))

Stored(run) ==
    /\ db' = [db EXCEPT !.attendance = run.map]
    /\ uuidCount' = run.count
    /\ issued' = issued \o [i \in 1..Len(run.results) |-> run.results[i].id]
    /\ shadow' = ShadowAll(shadow, "attendance", run.results)

bulkCreateAttendance(attendanceList) ==
    /\ ops < MaxOps
    /\ \E times \in Readings(now, Len(attendanceList)) :
         LET run == bulkLoop(attendanceList, db.attendance, uuidCount, times) IN
         /\ now' = LastReading(times)
         /\ Stored(run)
         /\ ret' = Returned("bulkCreateAttendance", "attendance", NoSuchId,
                            attendanceList, run.results)
    /\ ops' = ops + 1
    /\ UNCHANGED <<pc, frame>>

\* The batches tried: the first n elements of an alternating list, n <= MaxBatch.
Alternating(a, b, n) == [i \in 1..n |-> IF i % 2 = 1 THEN a ELSE b]

AttendanceLists == {Alternating(AttendanceA, AttendanceB, n) : n \in 0..MaxBatch}

----------------------------------------------------------------------------
(* Route handlers that make a single store call *)

\* insertAttendanceSchema: the attendance columns without id and createdAt;
\* notes is nullable.  parse() throws unless every required column is there,
\* and drops the keys the schema does not name.
AttendanceRequired == {"classId", "studentId", "date", "status"}
AttendanceColumns == AttendanceRequired \cup {"notes"}

parseThrows(att) == ~(AttendanceRequired \subseteq DOMAIN att)

parse(att) == [f \in (DOMAIN att) \cap AttendanceColumns |-> att[f]]

\* what req.body.map(att => insertAttendanceSchema.parse(att)) evaluates to
parsedList(body) == [i \in 1..Len(body) |-> parse(body[i])]

firstThrows(body) == body # <<>> /\ parseThrows(body[1])

anyThrows(body) == \E i \in 1..Len(body) : parseThrows(body[i])

Response(op, key, arg, status, value) ==
    [op |-> op, coll |-> "", key |-> key, arg |-> arg, status |-> status,
     value |-> value]

\* POST /api/attendance/bulk bodies: a list of valid elements (one of them
\* carrying an id of its own), and the same with the element at one position
\* lacking its status.
BodyA ==
    [classId |-> Uuid(5), studentId |-> Uuid(3), date |-> 0, status |-> "present",
     id |-> Uuid(1)]
BodyB == [classId |-> Uuid(5), studentId |-> Uuid(4), date |-> 0, status |-> "late"]

Invalid(att) == [f \in (DOMAIN att) \ {"status"} |-> att[f]]

BulkBodies ==
    LET body == Alternating(BodyA, BodyB, MaxBatch) IN
    {body} \cup {[body EXCEPT ![k] = Invalid(@)] : k \in 1..Len(body)}

\* app.post("/api/attendance/bulk")
PostAttendanceBulk(body) ==
    /\ ops < MaxOps
    /\ ops' = ops + 1
    /\ UNCHANGED <<pc, frame>>
    /\ IF anyThrows(body)
       THEN /\ ret' = Response("POST /api/attendance/bulk", NoSuchId, body, 400,
                               [message |-> "Invalid attendance data"])
            /\ UNCHANGED <<db, uuidCount, now, issued, shadow>>
       ELSE \E times \in Readings(now, Len(body)) :
              LET run == bulkLoop(parsedList(body), db.attendance, uuidCount, times) IN
              /\ now' = LastReading(times)
              /\ Stored(run)
              /\ ret' = Response("POST /api/attendance/bulk", NoSuchId, body, 201,
                                 run.results)

\* app.put("/api/students/:id") and app.put("/api/fees/:id"):
\* updates = req.body; record = await storage.update...(req.params.id, updates)
PutRoute(op, coll, id, updates) ==
    LET existing == MapGet(db[coll], id)
        updated == Spread(existing, updates)
    IN
    /\ ops < MaxOps
    /\ ops' = ops + 1
    /\ UNCHANGED <<uuidCount, now, issued, pc, frame>>
    /\ IF existing = undefined
       THEN /\ ret' = Response(op, id, updates, 404, [message |-> "not found"])
            /\ UNCHANGED <<db, shadow>>
       ELSE /\ db' = [db EXCEPT ![coll] = MapSet(@, id, updated)]
            /\ shadow' = ShadowSet(coll, id, updated)
            /\ ret' = Response(op, id, updates, 200, updated)

PutStudent(id, updates) == PutRoute("PUT /api/students/:id", "students", id, updates)

PutFee(id, updates) == PutRoute("PUT /api/fees/:id", "fees", id, updates)

----------------------------------------------------------------------------
(* Filter queries: Array.from(map.values()).filter(...) and .find(...) *)

\* rec.f === v; a record that has no field f yields undefined, which equals no v
FieldIs(rec, f, v) == f \in DOMAIN rec /\ rec[f] = v

\* what a call evaluates to when a callback reads a property of undefined: a
\* throw, told from every array of records by its one element
TypeError == <<[throws |-> "TypeError"]>>

getUserByEmail(email) ==
    LET found == SelectSeq(MapValues(db.users), LAMBDA user : FieldIs(user, "email", email))
    IN  IF found = <<>> THEN undefined ELSE Head(found)

getUsersByRole(role) ==
    SelectSeq(MapValues(db.users), LAMBDA user : FieldIs(user, "role", role))

getStudentsByTutor(tutorId) ==
    SelectSeq(MapValues(db.students), LAMBDA student : FieldIs(student, "tutorId", tutorId))

getStudentsByParent(parentId) ==
    SelectSeq(MapValues(db.students), LAMBDA student : FieldIs(student, "parentId", parentId))

getClassesByTutor(tutorId) ==
    SelectSeq(MapValues(db.classes), LAMBDA cls : FieldIs(cls, "tutorId", tutorId))

\* cls.studentIds.includes(studentId) throws for a class stored without studentIds
getClassesByStudent(studentId) ==
    IF \E cls \in Range(MapValues(db.classes)) : "studentIds" \notin DOMAIN cls
    THEN TypeError
    ELSE SelectSeq(MapValues(db.classes),
                   LAMBDA cls : studentId \in Range(cls.studentIds))

getAttendanceByStudent(studentId) ==
    SelectSeq(MapValues(db.attendance), LAMBDA att : FieldIs(att, "studentId", studentId))

getFeesByStudent(studentId) ==
    SelectSeq(MapValues(db.fees), LAMBDA fee : FieldIs(fee, "studentId", studentId))

getFeesByClass(classId) ==
    SelectSeq(MapValues(db.fees), LAMBDA fee : FieldIs(fee, "classId", classId))

getAllFeesAsMonth(month) == getAllFees

getFeesByMonth(month) ==
    SelectSeq(MapValues(db.fees), LAMBDA fee : FieldIs(fee, "month", month))

getHomeworkByClass(classId) ==
    SelectSeq(MapValues(db.homework), LAMBDA hw : FieldIs(hw, "classId", classId))

getHomeworkByTutor(tutorId) ==
    SelectSeq(MapValues(db.homework), LAMBDA hw : FieldIs(hw, "tutorId", tutorId))

getSubmissionsByHomework(homeworkId) ==
    SelectSeq(MapValues(db.homeworkSubmissions),
              LAMBDA sub : FieldIs(sub, "homeworkId", homeworkId))

getSubmissionsByStudent(studentId) ==
    SelectSeq(MapValues(db.homeworkSubmissions),
              LAMBDA sub : FieldIs(sub, "studentId", studentId))

getAnnouncementsByTutor(tutorId) ==
    SelectSeq(MapValues(db.announcements), LAMBDA ann : FieldIs(ann, "tutorId", tutorId))

\* ann.classIds.some(id => classIds.includes(id)) throws for an announcement
\* stored without classIds
getAnnouncementsForClasses(classIds) ==
    IF \E ann \in Range(MapValues(db.announcements)) : "classIds" \notin DOMAIN ann
    THEN TypeError
    ELSE SelectSeq(MapValues(db.announcements),
                   LAMBDA ann : \E id \in Range(ann.classIds) : id \in Range(classIds))

getSystemLogsByAdmin(adminId) ==
    SelectSeq(MapValues(db.systemLogs), LAMBDA log : FieldIs(log, "adminId", adminId))

getSystemLogsByAction(action) ==
    SelectSeq(MapValues(db.systemLogs), LAMBDA log : FieldIs(log, "action", action))

getSystemSettingByKey(key) ==
    LET found == SelectSeq(MapValues(db.systemSettings),
                           LAMBDA setting : FieldIs(setting, "key", key))
    IN  IF found = <<>> THEN undefined ELSE Head(found)

getSystemSettingsByCategory(category) ==
    SelectSeq(MapValues(db.systemSettings),
              LAMBDA setting : FieldIs(setting, "category", category))

----------------------------------------------------------------------------
(* getAdminDashboardStats *)

\* parseFloat(fee.amount), in hundredths.  The amounts of the model are
\* multiples of 0.5, which doubles and their sums represent exactly.
parseFloat(amount) ==
    CASE amount = "250.00" -> 25000
      [] amount = "100.50" -> 10050
      [] amount = "300.00" -> 30000

\* new Date().toISOString().slice(0, 7).  Time 0 is the construction of the
\* store, taken to be in the last millisecond of November 2024 (UTC).
MonthTurn == 1
toISOMonth(t) == IF t < MonthTurn THEN "2024-11" ELSE "2024-12"

\* .reduce((sum, fee) => sum + parseFloat(fee.amount), 0)
RECURSIVE reduceAmounts(_)
reduceAmounts(fees) ==
    IF fees = <<>> THEN 0
    ELSE parseFloat(Head(fees).amount) + reduceAmounts(Tail(fees))

totalRevenueOfAll(fees) == reduceAmounts(fees)

totalRevenue(fees) ==
    reduceAmounts(SelectSeq(fees, LAMBDA fee : FieldIs(fee, "status", "paid")))

monthlyRevenue(fees, currentMonth) ==
    reduceAmounts(SelectSeq(fees, LAMBDA fee : /\ FieldIs(fee, "status", "paid")
                                               /\ FieldIs(fee, "month", currentMonth)))

presentRecordsWithoutLate(attendance) ==
    Len(SelectSeq(attendance, LAMBDA att : FieldIs(att, "status", "present")))

presentRecords(attendance) ==
    Len(SelectSeq(attendance, LAMBDA att : \/ FieldIs(att, "status", "present")
                                           \/ FieldIs(att, "status", "late")))

\* parseFloat((present / total * 100).toFixed(1)), in tenths: toFixed rounds to
\* the nearest tenth, and a value halfway between two tenths upwards
toFixed1(present, total) == (2000 * present + total) \div (2 * total)

avgAttendance(attendance) ==
    IF Len(attendance) > 0
    THEN toFixed1(presentRecords(attendance), Len(attendance))
    ELSE 0

\* the record getAdminDashboardStats returns when its new Date() reads t
AdminDashboardStats(t) ==
    LET users == MapValues(db.users)
        students == MapValues(db.students)
        classes == MapValues(db.classes)
        fees == MapValues(db.fees)
        attendance == MapValues(db.attendance)
    IN  [totalUsers |-> Len(users),
         activeUsers |-> Len(SelectSeq(users, LAMBDA user : FieldIs(user, "isActive", TRUE))),
         totalStudents |-> Len(students),
         totalTutors |-> Len(SelectSeq(users, LAMBDA user : FieldIs(user, "role", "tutor"))),
         totalParents |-> Len(SelectSeq(users, LAMBDA user : FieldIs(user, "role", "parent"))),
         totalClasses |-> Len(classes),
         totalRevenue |-> totalRevenue(fees),
         monthlyRevenue |-> monthlyRevenue(fees, toISOMonth(t)),
         avgAttendance |-> avgAttendance(attendance)]

getAdminDashboardStatsMemoized ==
    /\ ops < MaxOps
    /\ now' \in NewDate
    /\ ret' = Returned("getAdminDashboardStats", "", NoSuchId, <<>>,
                       IF ret.op = "getAdminDashboardStats" THEN ret.value
                       ELSE AdminDashboardStats(now'))
    /\ ops' = ops + 1
    /\ UNCHANGED <<db, uuidCount, issued, shadow, pc, frame>>

getAdminDashboardStats ==
    /\ ops < MaxOps
    /\ now' \in NewDate
    /\ ret' = Returned("getAdminDashboardStats", "", NoSuchId, <<>>,
                       AdminDashboardStats(now'))
    /\ ops' = ops + 1
    /\ UNCHANGED <<db, uuidCount, issued, shadow, pc, frame>>

----------------------------------------------------------------------------
(* The store with one caller *)

Next ==
    \/ \E user \in InsertUsers : createUser(user)
    \/ \E id \in Ids("users"), user \in UserPatches : updateUser(id, user)
    \/ \E id \in Ids("users"), isActive \in BOOLEAN : updateUserStatus(id, isActive)
    \/ \E id \in Ids("users") : deleteUser(id)
    \/ \E student \in InsertStudents : createStudent(student)
    \/ \E id \in Ids("students"), student \in StudentPatches : updateStudent(id, student)
    \/ \E id \in Ids("students") : deleteStudent(id)
    \/ \E classData \in InsertClasses : createClass(classData)
    \/ \E id \in Ids("classes"), classData \in ClassPatches : updateClass(id, classData)
    \/ \E id \in Ids("classes") : deleteClass(id)
    \/ \E attendance \in InsertAttendances : createAttendance(attendance)
    \/ \E id \in Ids("attendance"), attendance \in AttendancePatches :
          updateAttendance(id, attendance)
    \/ \E attendanceList \in AttendanceLists :
          bulkCreateAttendance(attendanceList)
    \/ \E fee \in InsertFees : createFee(fee)
    \/ \E id \in Ids("fees"), fee \in FeePatches : updateFee(id, fee)
    \/ \E id \in Ids("fees") : deleteFee(id)
    \/ \E homework \in InsertHomeworks : createHomework(homework)
    \/ \E id \in Ids("homework"), homework \in HomeworkPatches :
          updateHomework(id, homework)
    \/ \E id \in Ids("homework") : deleteHomework(id)
    \/ \E submission \in InsertHomeworkSubmissions : createHomeworkSubmission(submission)
    \/ \E id \in Ids("homeworkSubmissions"), submission \in HomeworkSubmissionPatches :
          updateHomeworkSubmission(id, submission)
    \/ \E announcement \in InsertAnnouncements : createAnnouncement(announcement)
    \/ \E id \in Ids("announcements"), announcement \in AnnouncementPatches :
          updateAnnouncement(id, announcement)
    \/ \E id \in Ids("announcements") : deleteAnnouncement(id)
    \/ \E log \in InsertSystemLogs : createSystemLog(log)
    \/ \E setting \in InsertSystemSettings : createSystemSetting(setting)
    \/ \E id \in Ids("systemSettings"), setting \in SystemSettingPatches :
          updateSystemSetting(id, setting)
    \/ \E id \in Ids("systemSettings") : deleteSystemSetting(id)
    \/ \E body \in BulkBodies : PostAttendanceBulk(body)
    \/ \E id \in Ids("students"), updates \in StudentBodies : PutStudent(id, updates)
    \/ \E id \in Ids("fees"), updates \in FeeBodies : PutFee(id, updates)
    \/ getAdminDashboardStats

Spec == Init /\ [][Next]_vars

----------------------------------------------------------------------------
(* Request handlers as processes.  A handler runs until its next await, where *)
(* it is suspended and any other handler may run.                             *)

toDateStringExact(t) == t

\* Date.prototype.toDateString: the calendar day of a timestamp
toDateString(t) == t \div DayMs

\* getAttendanceByClass(classId, date?); a call without a date passes NullNumber
getAttendanceByClass(classId, date) ==
    SelectSeq(MapValues(db.attendance),
              LAMBDA att :
                  LET classMatch == att.classId = classId IN
                  IF date = NullNumber THEN classMatch
                  ELSE classMatch /\ toDateString(att.date) = toDateString(date))

\* app.post("/api/attendance/bulk") up to the first await.  The body is parsed
\* whole, then bulkCreateAttendance runs into its first createAttendance, which
\* stores its record before the loop awaits it.
BulkReceive(p, body) ==
    /\ pc[p] = "idle"
    /\ ops < MaxOps
    /\ ops' = ops + 1
    /\ UNCHANGED <<issued, shadow>>
    /\ IF anyThrows(body)
       THEN /\ ret' = Response("POST /api/attendance/bulk", NoSuchId, body, 400,
                               [message |-> "Invalid attendance data"])
            /\ UNCHANGED <<db, uuidCount, now, pc, frame>>
       ELSE IF body = <<>>
       THEN /\ pc' = [pc EXCEPT ![p] = "bulkReturned"]
            /\ frame' = [frame EXCEPT ![p] = [list |-> <<>>, results |-> <<>>,
                                              ids |-> {}]]
            /\ UNCHANGED <<db, uuidCount, now, ret>>
       ELSE LET attendanceList == parsedList(body)
                created == newAttendance(attendanceList[1], uuidCount, now')
            IN
            /\ now' \in NewDate
            /\ db' = [db EXCEPT !.attendance = MapSet(@, created.id, created)]
            /\ uuidCount' = uuidCount + 1
            /\ pc' = [pc EXCEPT ![p] = "awaitCreate"]
            /\ frame' = [frame EXCEPT ![p] =
                            [list |-> attendanceList, results |-> <<>>,
                             created |-> created, ids |-> {created.id}]]
            /\ UNCHANGED ret

\* the loop of bulkCreateAttendance resumes: results.push(created), then either
\* the next createAttendance and its await, or return results
BulkResume(p) ==
    /\ pc[p] = "awaitCreate"
    /\ UNCHANGED <<ret, ops, issued, shadow>>
    /\ LET f == frame[p]
           results == Append(f.results, f.created)
       IN
       IF Len(results) < Len(f.list)
       THEN LET created == newAttendance(f.list[Len(results) + 1], uuidCount, now') IN
            /\ now' \in NewDate
            /\ db' = [db EXCEPT !.attendance = MapSet(@, created.id, created)]
            /\ uuidCount' = uuidCount + 1
            /\ frame' = [frame EXCEPT ![p] =
                            [f EXCEPT !.results = results, !.created = created,
                                      !.ids = @ \cup {created.id}]]
            /\ UNCHANGED pc
       ELSE /\ pc' = [pc EXCEPT ![p] = "bulkReturned"]
            /\ frame' = [frame EXCEPT ![p] =
                            [list |-> f.list, results |-> results, ids |-> f.ids]]
            /\ UNCHANGED <<db, uuidCount, now>>

\* the handler resumes after await storage.bulkCreateAttendance(...)
BulkRespond(p) ==
    /\ pc[p] = "bulkReturned"
    /\ ret' = Response("POST /api/attendance/bulk", NoSuchId, frame[p].list, 201,
                       frame[p].results)
    /\ pc' = [pc EXCEPT ![p] = "idle"]
    /\ frame' = [frame EXCEPT ![p] = <<>>]
    /\ UNCHANGED <<db, uuidCount, now, ops, issued, shadow>>

\* app.get("/api/attendance/class/:classId") up to its await: the date is the
\* query's, or else new Date()
GetAttendanceReceive(p, classId, query) ==
    /\ pc[p] = "idle"
    /\ ops < MaxOps
    /\ ops' = ops + 1
    /\ now' \in (IF query = NullNumber THEN NewDate ELSE {now})
    /\ LET attendanceDate == IF query = NullNumber THEN now' ELSE query IN
       frame' = [frame EXCEPT ![p] =
                    [attendance |-> getAttendanceByClass(classId, attendanceDate)]]
    /\ pc' = [pc EXCEPT ![p] = "getReturned"]
    /\ UNCHANGED <<db, uuidCount, ret, issued, shadow>>

\* res.json(attendance)
GetAttendanceRespond(p) ==
    /\ pc[p] = "getReturned"
    /\ ret' = Response("GET /api/attendance/class/:classId", NoSuchId, <<>>, 200,
                       frame[p].attendance)
    /\ pc' = [pc EXCEPT ![p] = "idle"]
    /\ frame' = [frame EXCEPT ![p] = <<>>]
    /\ UNCHANGED <<db, uuidCount, now, ops, issued, shadow>>

\* The log entry the admin routes write: adminId is the body's, or 'system';
\* ipAddress is req.ip, here the loopback address.
adminLog(body, action, targetType, targetId, details) ==
    [adminId |-> IF "adminId" \in DOMAIN body THEN body.adminId ELSE "system",
     action |-> action, targetType |-> targetType, targetId |-> targetId,
     details |-> details, ipAddress |-> "127.0.0.1"]

\* app.delete("/api/admin/users/:id") up to its first await: getUser has read
\* the map when the handler is suspended.  status is what res has sent (0: nothing yet).
DeleteUserReceive(p, id, body) ==
    /\ pc[p] = "idle"
    /\ ops < MaxOps
    /\ ops' = ops + 1
    /\ frame' = [frame EXCEPT ![p] = [id |-> id, body |-> body, user |-> getUser(id),
                                      deleted |-> FALSE, status |-> 0]]
    /\ pc' = [pc EXCEPT ![p] = "awaitGetUser"]
    /\ UNCHANGED <<db, uuidCount, now, ret, issued, shadow>>

\* if (!user) return 404; deleted = await storage.deleteUser(req.params.id)
DeleteUserAfterGet(p) ==
    /\ pc[p] = "awaitGetUser"
    /\ UNCHANGED <<uuidCount, now, ops, issued, shadow>>
    /\ LET f == frame[p] IN
       IF f.user = undefined
       THEN /\ ret' = Response("DELETE /api/admin/users/:id", f.id, f.body, 404,
                               [message |-> "User not found"])
            /\ frame' = [frame EXCEPT ![p] = [f EXCEPT !.status = 404]]
            /\ pc' = [pc EXCEPT ![p] = "idle"]
            /\ UNCHANGED db
       ELSE /\ db' = [db EXCEPT !.users = MapDelete(@, f.id)]
            /\ frame' = [frame EXCEPT ![p] = [f EXCEPT !.deleted = MapHas(db.users, f.id)]]
            /\ pc' = [pc EXCEPT ![p] = "awaitDeleteUser"]
            /\ UNCHANGED ret

DeleteUserAfterDeleteUnchecked(p) ==
    /\ pc[p] = "awaitDeleteUser"
    /\ UNCHANGED <<ops, issued, shadow, frame, ret>>
    /\ LET f == frame[p]
           log == adminLog(f.body, "user_deleted", "user", f.id,
                           [userName |-> f.user.name, userRole |-> f.user.role])
           newLog == Spread(log, [id |-> randomUUID(uuidCount), createdAt |-> now'])
       IN
       /\ now' \in NewDate
       /\ db' = [db EXCEPT !.systemLogs = MapSet(@, newLog.id, newLog)]
       /\ uuidCount' = uuidCount + 1
       /\ pc' = [pc EXCEPT ![p] = "awaitLog"]

\* if (!deleted) return 404; await storage.createSystemLog({...})
DeleteUserAfterDelete(p) ==
    /\ pc[p] = "awaitDeleteUser"
    /\ UNCHANGED <<ops, issued, shadow>>
    /\ LET f == frame[p]
           log == adminLog(f.body, "user_deleted", "user", f.id,
                           [userName |-> f.user.name, userRole |-> f.user.role])
           newLog == Spread(log, [id |-> randomUUID(uuidCount), createdAt |-> now'])
       IN
       IF ~f.deleted
       THEN /\ ret' = Response("DELETE /api/admin/users/:id", f.id, f.body, 404,
                               [message |-> "User not found"])
            /\ frame' = [frame EXCEPT ![p] = [f EXCEPT !.status = 404]]
            /\ pc' = [pc EXCEPT ![p] = "idle"]
            /\ UNCHANGED <<db, uuidCount, now>>
       ELSE /\ now' \in NewDate
            /\ db' = [db EXCEPT !.systemLogs = MapSet(@, newLog.id, newLog)]
            /\ uuidCount' = uuidCount + 1
            /\ pc' = [pc EXCEPT ![p] = "awaitLog"]
            /\ UNCHANGED <<ret, frame>>

\* res.status(204).send()
DeleteUserRespond(p) ==
    /\ pc[p] = "awaitLog"
    /\ ret' = Response("DELETE /api/admin/users/:id", frame[p].id, frame[p].body, 204,
                       <<>>)
    /\ frame' = [frame EXCEPT ![p] = [@ EXCEPT !.status = 204]]
    /\ pc' = [pc EXCEPT ![p] = "idle"]
    /\ UNCHANGED <<db, uuidCount, now, ops, issued, shadow>>

\* app.put("/api/fees/:id") up to its await: updateFee has read, merged and
\* written the record when the handler is suspended
PutFeeReceive(p, id, updates) ==
    LET existing == MapGet(db.fees, id)
        updated == Spread(existing, updates)
    IN
    /\ pc[p] = "idle"
    /\ ops < MaxOps
    /\ ops' = ops + 1
    /\ pc' = [pc EXCEPT ![p] = "awaitUpdateFee"]
    /\ UNCHANGED <<uuidCount, now, ret, issued, shadow>>
    /\ IF existing = undefined
       THEN /\ frame' = [frame EXCEPT ![p] = [id |-> id, updates |-> updates,
                                              fee |-> undefined]]
            /\ UNCHANGED db
       ELSE /\ db' = [db EXCEPT !.fees = MapSet(@, id, updated)]
            /\ frame' = [frame EXCEPT ![p] = [id |-> id, updates |-> updates,
                                              fee |-> updated]]

PutFeeRespondStoring(p) ==
    LET f == frame[p] IN
    /\ pc[p] = "awaitUpdateFee"
    /\ pc' = [pc EXCEPT ![p] = "idle"]
    /\ UNCHANGED <<uuidCount, now, ops, issued, shadow, frame>>
    /\ IF f.fee = undefined
       THEN /\ ret' = Response("PUT /api/fees/:id", f.id, f.updates, 404,
                               [message |-> "Fee not found"])
            /\ UNCHANGED db
       ELSE /\ db' = [db EXCEPT !.fees = MapSet(@, f.id, f.fee)]
            /\ ret' = Response("PUT /api/fees/:id", f.id, f.updates, 200, f.fee)

\* if (!fee) return 404; res.json(fee)
PutFeeRespond(p) ==
    LET f == frame[p] IN
    /\ pc[p] = "awaitUpdateFee"
    /\ ret' = IF f.fee = undefined
              THEN Response("PUT /api/fees/:id", f.id, f.updates, 404,
                            [message |-> "Fee not found"])
              ELSE Response("PUT /api/fees/:id", f.id, f.updates, 200, f.fee)
    /\ pc' = [pc EXCEPT ![p] = "idle"]
    /\ UNCHANGED <<db, uuidCount, now, ops, issued, shadow, frame>>

PutFeeIds == {SeedFee(0).id, NoSuchId}
PutFeeBodies == {[status |-> "overdue"], [paidDate |-> DayMs]}

DeleteUserIds == {SeedTutor(0).id, NoSuchId}
DeleteBodies == {<<>>}

ClassIds == {randomUUID(4), NoSuchId}
DateQueries == {NullNumber, 0, DayMs}

NextConc ==
    \/ \E p \in Procs, body \in BulkBodies : BulkReceive(p, body)
    \/ \E p \in Procs : BulkResume(p)
    \/ \E p \in Procs : BulkRespond(p)
    \/ \E p \in Procs, classId \in ClassIds, query \in DateQueries :
          GetAttendanceReceive(p, classId, query)
    \/ \E p \in Procs : GetAttendanceRespond(p)
    \/ \E p \in Procs, id \in DeleteUserIds, body \in DeleteBodies :
          DeleteUserReceive(p, id, body)
    \/ \E p \in Procs : DeleteUserAfterGet(p)
    \/ \E p \in Procs : DeleteUserAfterDelete(p)
    \/ \E p \in Procs : DeleteUserRespond(p)
    \/ \E p \in Procs, id \in PutFeeIds, updates \in PutFeeBodies :
          PutFeeReceive(p, id, updates)
    \/ \E p \in Procs : PutFeeRespond(p)

SpecConc == Init /\ [][NextConc]_vars

----------------------------------------------------------------------------
(* Properties of the store operations.  A step that makes a call raises ops, *)
(* and ret' tells which call it was.                                         *)

CreateOps ==
    {"createUser", "createStudent", "createClass", "createAttendance", "createFee",
     "createHomework", "createHomeworkSubmission", "createAnnouncement",
     "createSystemLog", "createSystemSetting"}

UpdateOps ==
    {"updateUser", "updateUserStatus", "updateStudent", "updateClass",
     "updateAttendance", "updateFee", "updateHomework", "updateHomeworkSubmission",
     "updateAnnouncement", "updateSystemSetting"}

DeleteOps ==
    {"deleteUser", "deleteStudent", "deleteClass", "deleteFee", "deleteHomework",
     "deleteAnnouncement", "deleteSystemSetting"}

Called(names) == ops' = ops + 1 /\ ret'.op \in names

\* every record but the one under id, and every other collection, is as before
OthersUntouched(coll, id) ==
    /\ \A c \in Collections \ {coll} : db'[c] = db[c]
    /\ Len(db'[coll]) = Len(db[coll])
    /\ \A i \in 1..Len(db[coll]) :
          /\ db'[coll][i].k = db[coll][i].k
          /\ db[coll][i].k # id => db'[coll][i] = db[coll][i]

\* the record under id differs from `before` in the fields of `changed` at most
OnlyChanged(before, after, changed) ==
    /\ DOMAIN after = (DOMAIN before) \cup changed
    /\ \A f \in (DOMAIN before) \ changed : after[f] = before[f]

SingleFieldUpdate ==
    /\ Called(UpdateOps)
    /\ MapHas(db[ret'.coll], ret'.key)
    /\ Cardinality(DOMAIN ret'.arg) = 1

\* C1 as claimed: an update with a one-field payload on an existing id changes
\* that field of that record and nothing else in the store, for every kind.
C1_UpdateChangesOnlyTheField ==
    [][SingleFieldUpdate =>
          LET before == MapGet(db[ret'.coll], ret'.key)
              after == MapGet(db'[ret'.coll], ret'.key)
          IN  /\ OnlyChanged(before, after, DOMAIN ret'.arg)
              /\ \A f \in DOMAIN ret'.arg : after[f] = ret'.arg[f]
              /\ OthersUntouched(ret'.coll, ret'.key)]_vars

\* C1 amended: the same, except that updateSystemSetting also sets updatedAt to
\* the time of the update.
C1_UpdateChangesOnlyTheFieldAndUpdatedAt ==
    [][SingleFieldUpdate =>
          LET before == MapGet(db[ret'.coll], ret'.key)
              after == MapGet(db'[ret'.coll], ret'.key)
              stamped == IF ret'.op = "updateSystemSetting" THEN {"updatedAt"} ELSE {}
          IN  /\ OnlyChanged(before, after, (DOMAIN ret'.arg) \cup stamped)
              /\ \A f \in (DOMAIN ret'.arg) \ stamped : after[f] = ret'.arg[f]
              /\ \A f \in stamped : after[f] = now'
              /\ ret'.value = after
              /\ OthersUntouched(ret'.coll, ret'.key)]_vars

\* a one-field updateSystemSetting has run at a later time than the setting was
\* written, and what it returned is what is stored
C1_Witness ==
    /\ ret.op = "updateSystemSetting"
    /\ ret.value # undefined
    /\ Cardinality(DOMAIN ret.arg) = 1
    /\ ret.value.updatedAt = 1
    /\ getSystemSetting(ret.key) = ret.value

\* C2 as claimed: every stored record carries the id it is stored under, which
\* is an id a create returned (or the constructor assigned).
C2_IdsAreImmutable ==
    \A c \in Collections : \A i \in 1..Len(db[c]) :
        /\ db[c][i].v.id = db[c][i].k
        /\ db[c][i].k \in Range(issued)

\* C3: the ids handed to seeded and created records are non-empty and pairwise
\* different over the whole life of the store, deleted records included, and a
\* create returns the id it has just been handed.
C3_IdsAreUniqueAndNonEmpty ==
    /\ \A i \in 1..Len(issued) : issued[i] # ""
    /\ \A i, j \in 1..Len(issued) : i # j => issued[i] # issued[j]
    /\ ret.op \in CreateOps => ret.value.id = issued[Len(issued)]

\* a record has been created after another one was deleted
C3_Witness ==
    /\ ret.op \in CreateOps
    /\ \E i \in 1..SeedCount : \A c \in Collections : ~MapHas(db[c], issued[i])

\* the fields a create sets by itself
Timestamp(coll) ==
    CASE coll = "homework" -> "assignedDate"
      [] coll = "homeworkSubmissions" -> "submittedAt"
      [] coll = "systemSettings" -> "updatedAt"
      [] OTHER -> "createdAt"

Synthesized(coll) == {"id", Timestamp(coll)}

Forced(coll) == IF coll = "users" THEN {"isActive", "lastLogin"} ELSE {}

\* C4 as claimed: right after r = create(data), get(r.id) is r, and r has every
\* value of data except for the id and the timestamp.
C4_GetAfterCreate ==
    ret.op \in CreateOps =>
        /\ Get(ret.coll, ret.value.id) = ret.value
        /\ \A f \in (DOMAIN ret.arg) \ Synthesized(ret.coll) :
              f \in DOMAIN ret.value /\ ret.value[f] = ret.arg[f]

\* C4 amended: the same, except that createUser also sets isActive to true and
\* lastLogin to null whatever data says.
C4_GetAfterCreateButUserFlags ==
    ret.op \in CreateOps =>
        /\ Get(ret.coll, ret.value.id) = ret.value
        /\ ret.value.id = ret.key
        /\ ret.value[Timestamp(ret.coll)] = now
        /\ \A f \in (DOMAIN ret.arg) \ (Synthesized(ret.coll) \cup Forced(ret.coll)) :
              f \in DOMAIN ret.value /\ ret.value[f] = ret.arg[f]
        /\ ret.coll = "users" =>
              ret.value.isActive = TRUE /\ ret.value.lastLogin = NullNumber

\* a user was created from data that says inactive and carries a last login
C4_Witness ==
    /\ ret.op = "createUser"
    /\ "isActive" \in DOMAIN ret.arg
    /\ ret.arg.isActive = FALSE
    /\ ret.arg.lastLogin # NullNumber
    /\ getUser(ret.value.id) = ret.value

\* C5: delete(id) of an existing id returns true and get(id) is then absent;
\* of an id that is not there it returns false and leaves the store as it was.
C5_Delete ==
    [][Called(DeleteOps) =>
          IF MapHas(db[ret'.coll], ret'.key)
          THEN /\ ret'.value = TRUE
               /\ MapGet(db'[ret'.coll], ret'.key) = undefined
               /\ \A c \in Collections \ {ret'.coll} : db'[c] = db[c]
          ELSE /\ ret'.value = FALSE
               /\ db' = db]_vars

\* a delete has returned false for an id whose record an earlier delete removed
C5_Witness ==
    /\ ret.op \in DeleteOps
    /\ ret.value = FALSE
    /\ ret.key \in Range(issued)
    /\ Get(ret.coll, ret.key) = undefined

\* C6: update(id, fields) of an id that is not in the collection returns absent
\* and leaves the store as it was.
C6_UpdateOfMissingId ==
    [][(Called(UpdateOps) /\ ~MapHas(db[ret'.coll], ret'.key)) =>
          /\ ret'.value = undefined
          /\ db' = db]_vars

\* an update has returned absent for the id of a record that was deleted
C6_Witness ==
    /\ ret.op \in UpdateOps
    /\ ret.value = undefined
    /\ ret.key \in Range(issued)
    /\ Get(ret.coll, ret.key) = undefined

----------------------------------------------------------------------------

\* getAllSystemLogs: sorted by createdAt, newest first; Array.prototype.sort is stable
RECURSIVE InsertNewestFirst(_, _)
InsertNewestFirst(sorted, log) ==
    IF sorted = <<>> THEN <<log>>
    ELSE IF Head(sorted).createdAt >= log.createdAt
         THEN <<Head(sorted)>> \o InsertNewestFirst(Tail(sorted), log)
         ELSE <<log>> \o sorted

SortKeepingOrder(logs) == logs

RECURSIVE SortNewestFirst(_)
SortNewestFirst(logs) ==
    IF logs = <<>> THEN <<>>
    ELSE InsertNewestFirst(SortNewestFirst(SubSeq(logs, 1, Len(logs) - 1)),
                           logs[Len(logs)])

getAllSystemLogs == SortNewestFirst(MapValues(db.systemLogs))

WithGetAll == Collections \ {"attendance", "homeworkSubmissions"}

GetAll(coll) ==
    CASE coll = "users" -> getAllUsers
      [] coll = "students" -> getAllStudents
      [] coll = "classes" -> getAllClasses
      [] coll = "fees" -> getAllFees
      [] coll = "homework" -> getAllHomework
      [] coll = "announcements" -> getAllAnnouncements
      [] coll = "systemLogs" -> getAllSystemLogs
      [] coll = "systemSettings" -> getAllSystemSettings

Occurrences(s, v) == Cardinality({i \in 1..Len(s) : s[i] = v})

\* C7: getAll of a kind returns the records that were seeded or created and
\* not deleted since, each once, in the form its last update returned.
C7_GetAllIsTheLiveRecords ==
    \A c \in WithGetAll :
        LET all == GetAll(c)
            live == shadow[c]
        IN  /\ Len(all) = Cardinality(DOMAIN live)
            /\ \A k \in DOMAIN live :
                  Occurrences(all, live[k]) =
                      Cardinality({j \in DOMAIN live : live[j] = live[k]})

\* one seeded student was deleted after the other one was updated
C7_Witness ==
    /\ ret.op = "deleteStudent"
    /\ ret.value = TRUE
    /\ Len(getAllStudents) = 1
    /\ getAllStudents[1] \notin {SeedStudent1(0), SeedStudent2(0)}

----------------------------------------------------------------------------

FirstInvalid(body) == CHOOSE n \in 1..Len(body) :
    parseThrows(body[n]) /\ \A i \in 1..(n - 1) : ~parseThrows(body[i])

BulkRejected ==
    /\ ops' = ops + 1
    /\ ret'.op = "POST /api/attendance/bulk"
    /\ \E i \in 1..Len(ret'.arg) : parseThrows(ret'.arg[i])

\* C8 as claimed: when element N of the body fails validation, the elements
\* before N are stored and the later ones are not.
C8_PartialBatch ==
    [][BulkRejected =>
          LET n == FirstInvalid(ret'.arg) IN
          /\ Len(db'.attendance) = Len(db.attendance) + (n - 1)
          /\ \A i \in 1..(n - 1) :
                \E j \in 1..Len(db'.attendance) :
                    /\ ~MapHas(db.attendance, db'.attendance[j].k)
                    /\ db'.attendance[j].v.studentId = ret'.arg[i].studentId]_vars

\* C8 amended: when any element of the body fails validation, the request is
\* answered 400 and no element of the batch is stored.
C8_NothingStored ==
    [][BulkRejected =>
          /\ ret'.status = 400
          /\ db' = db
          /\ uuidCount' = uuidCount]_vars

\* a body whose first element is valid and whose second is not was answered
C8_Witness ==
    /\ ret.op = "POST /api/attendance/bulk"
    /\ Len(ret.arg) >= 2
    /\ ~parseThrows(ret.arg[1])
    /\ parseThrows(ret.arg[2])
    /\ ret.status = 400

\* C9 as claimed: a concurrent read never sees some but not all of the records
\* of one bulkCreateAttendance batch.  frame[q].ids are the ids the batch of
\* handler q has stored so far, frame[p].attendance what handler p has read.
C9_NoPartialBatchIsRead ==
    \A p, q \in Procs :
        (pc[p] = "getReturned" /\ pc[q] \in {"awaitCreate", "bulkReturned"}) =>
            LET seen == {id \in frame[q].ids :
                            \E i \in 1..Len(frame[p].attendance) :
                                frame[p].attendance[i].id = id}
            IN  Cardinality(seen) \in {0, Len(frame[q].list)}

\* C9, its first half: no store call of one handler runs while a store
\* operation of another handler is suspended inside its loop.
C9_StoreOperationsAreNotInterleaved ==
    [][\A p \in Procs :
          (pc[p] = "idle" /\ pc'[p] \in {"getReturned", "awaitCreate"}) =>
              \A q \in Procs \ {p} : pc[q] # "awaitCreate"]_vars

\* C10: bulkCreateAttendance(list) returns one record per element, the i-th one
\* built from the i-th element (its fields but for the id and the timestamp the
\* store sets), with pairwise different ids, each of them what
\* getAttendance returns for its id; an empty list returns an empty list and
\* leaves the store as it was.
C10_BulkCreate ==
    [][Called({"bulkCreateAttendance"}) =>
          LET list == ret'.arg
              results == ret'.value
          IN  /\ Len(results) = Len(list)
              /\ \A i \in 1..Len(list) :
                    /\ \A f \in (DOMAIN list[i]) \ Synthesized("attendance") :
                          f \in DOMAIN results[i] /\ results[i][f] = list[i][f]
                    /\ MapGet(db'.attendance, results[i].id) = results[i]
                    /\ ~MapHas(db.attendance, results[i].id)
              /\ \A i, j \in 1..Len(results) :
                    i # j => results[i].id # results[j].id
              /\ Len(db'.attendance) = Len(db.attendance) + Len(list)
              /\ list = <<>> => (results = <<>> /\ db' = db)]_vars

\* a batch of two different elements has been stored
C10_Witness ==
    /\ ret.op = "bulkCreateAttendance"
    /\ Len(ret.value) = 2
    /\ ret.value[1].status = "present"
    /\ ret.value[2].status = "absent"
    /\ getAttendance(ret.value[2].id) = ret.value[2]

----------------------------------------------------------------------------
(* Foreign references: the columns the schema declares with references() *)

\* columns holding one id (or null), with the collection they point into
ScalarReferences(coll) ==
    CASE coll = "students" -> {<<"parentId", "users">>, <<"tutorId", "users">>}
      [] coll = "classes" -> {<<"tutorId", "users">>}
      [] coll = "attendance" -> {<<"classId", "classes">>, <<"studentId", "students">>}
      [] coll = "fees" -> {<<"studentId", "students">>, <<"classId", "classes">>}
      [] coll = "homework" -> {<<"classId", "classes">>, <<"tutorId", "users">>}
      [] coll = "homeworkSubmissions" ->
            {<<"homeworkId", "homework">>, <<"studentId", "students">>}
      [] coll = "announcements" -> {<<"tutorId", "users">>}
      [] coll = "systemLogs" -> {<<"adminId", "users">>}
      [] OTHER -> {}

\* columns holding a list of ids
ListReferences(coll) ==
    CASE coll = "classes" -> {<<"studentIds", "students">>}
      [] coll = "announcements" -> {<<"classIds", "classes">>}
      [] OTHER -> {}

\* the <<target collection, id>> pairs a record of coll refers to
ReferencesOf(coll, rec) ==
    {<<r[2], rec[r[1]]>> : r \in {x \in ScalarReferences(coll) :
                                     x[1] \in DOMAIN rec /\ rec[x[1]] # null}}
    \cup UNION {{<<r[2], rec[r[1]][i]>> : i \in 1..Len(rec[r[1]])} :
                  r \in {x \in ListReferences(coll) : x[1] \in DOMAIN rec}}

\* C11 as claimed: whenever a create or an update stores a record, every
\* reference the record holds names a record that is in its target collection
\* at that moment.
C11_ReferencesExistAtWriteTime ==
    [][(Called(CreateOps \cup UpdateOps) /\ ret'.value # undefined) =>
          \A r \in ReferencesOf(ret'.coll, ret'.value) : MapHas(db'[r[1]], r[2])]_vars

----------------------------------------------------------------------------

\* C12: deleteStudent, deleteClass and deleteUser take the one record out of
\* their own collection and leave every other collection as it was; the fees
\* getFeesByStudent(s) returned before deleteStudent(s) are returned after it.
C12_DeleteDoesNotCascade ==
    [][Called({"deleteStudent", "deleteClass", "deleteUser"}) =>
          /\ \A c \in Collections \ {ret'.coll} : db'[c] = db[c]
          /\ Range(db'[ret'.coll]) = {e \in Range(db[ret'.coll]) : e.k # ret'.key}
          /\ \A s \in MapKeys(db.students) :
                (ret'.op = "deleteStudent" /\ ret'.key = s) =>
                    getFeesByStudent(s)' = getFeesByStudent(s)]_vars

\* a student was deleted whose fee is still returned by getFeesByStudent
C12_Witness ==
    /\ ret.op = "deleteStudent"
    /\ ret.value = TRUE
    /\ getStudent(ret.key) = undefined
    /\ getFeesByStudent(ret.key) # <<>>

----------------------------------------------------------------------------

\* the sum of the amounts (in hundredths) of the fees with the given ids
RECURSIVE SumOfAmounts(_, _)
SumOfAmounts(fees, ids) ==
    IF ids = {} THEN 0
    ELSE LET id == CHOOSE x \in ids : TRUE
         IN  parseFloat(fees[id].amount) + SumOfAmounts(fees, ids \ {id})

PaidFees == {id \in DOMAIN shadow.fees : FieldIs(shadow.fees[id], "status", "paid")}

PaidFeesOfMonth(month) == {id \in PaidFees : FieldIs(shadow.fees[id], "month", month)}

RevenueIsTheSumOfPaidFees(t) ==
    /\ AdminDashboardStats(t).totalRevenue = SumOfAmounts(shadow.fees, PaidFees)
    /\ AdminDashboardStats(t).monthlyRevenue =
          SumOfAmounts(shadow.fees, PaidFeesOfMonth(toISOMonth(t)))

\* C13: in the constructed store and after every step that writes a fee or
\* reads the clock (the sums depend on nothing else), and so whenever
\* getAdminDashboardStats is called, its totalRevenue is the sum
\* of the amounts of the paid fees and its monthlyRevenue the sum over the paid
\* fees of the current month; an updateFee that turns a fee that is not paid
\* into a paid one raises totalRevenue by the fee's amount, and monthlyRevenue
\* by that amount if the fee's month is the current month and by nothing if not.
C13_RevenueIsTheSumOfPaidFees ==
    [][/\ ops = 0 => \A t \in NewDate : RevenueIsTheSumOfPaidFees(t)
       /\ <<db.fees, shadow.fees, now>>' # <<db.fees, shadow.fees, now>> =>
             (\A t \in NewDate : RevenueIsTheSumOfPaidFees(t))'
       /\ Called({"getAdminDashboardStats"}) =>
             /\ RevenueIsTheSumOfPaidFees(now')
             /\ ret'.value = AdminDashboardStats(now')
       /\ \A t \in NewDate :
             LET before == MapGet(db.fees, ret'.key)
                 amount == parseFloat(ret'.value.amount)
                 inMonth == FieldIs(ret'.value, "month", toISOMonth(t))
             IN  (/\ Called({"updateFee"})
                  /\ ret'.value # undefined
                  /\ ~FieldIs(before, "status", "paid")
                  /\ FieldIs(ret'.value, "status", "paid")) =>
                     /\ AdminDashboardStats(t)'.totalRevenue =
                           AdminDashboardStats(t).totalRevenue + amount
                     /\ AdminDashboardStats(t)'.monthlyRevenue =
                           AdminDashboardStats(t).monthlyRevenue
                              + (IF inMonth THEN amount ELSE 0)]_vars

\* a fee of the current month that was created pending has been paid, and the
\* revenue of the month holds its amount on top of the seeded fee's
C13_Witness ==
    /\ ret.op = "updateFee"
    /\ ret.value # undefined
    /\ ret.value.status = "paid"
    /\ ret.value.month = toISOMonth(now)
    /\ ret.key \notin Range(SubSeq(issued, 1, SeedCount))
    /\ AdminDashboardStats(now).monthlyRevenue = 2 * parseFloat(ret.value.amount)

\* C14: avgAttendance is 0 when no attendance record is stored; otherwise it is
\* the percentage of the records that are present or late, to the nearest
\* tenth, and lies between 0 and 100.  (avgAttendance counts tenths.)
C14_AvgAttendance ==
    LET avg == AdminDashboardStats(now).avgAttendance
        all == DOMAIN shadow.attendance
        total == Cardinality(all)
        attended == Cardinality({id \in all :
                                    shadow.attendance[id].status \in {"present", "late"}})
        diff == avg * total - 1000 * attended
    IN  /\ total = 0 => avg = 0
        /\ 2 * diff <= total /\ -2 * diff <= total
        /\ 0 <= avg /\ avg <= 1000
        /\ ret.op = "getAdminDashboardStats" => ret.value.avgAttendance = avg

\* three records are stored, two of them attended and one of these late, and
\* the stats say 66.7
C14_Witness ==
    /\ Len(db.attendance) = 3
    /\ AdminDashboardStats(now).avgAttendance = 667
    /\ \E att \in Range(MapValues(db.attendance)) : att.status = "late"

----------------------------------------------------------------------------

Months == {"2024-11", "2024-12"}

\* createFee is the first call made on the store the constructor built
FirstCallCreatesFeeOf(month) ==
    /\ ops = 0
    /\ Called({"createFee"})
    /\ ret'.arg.month = month

\* C15 as claimed: on the store as constructed, after createFee of one fee of
\* month "2024-11", getFeesByMonth("2024-11") returns that fee and no other.
C15_FeesByMonthIsTheCreatedFee ==
    [][FirstCallCreatesFeeOf("2024-11") =>
          getFeesByMonth("2024-11")' = <<ret'.value>>]_vars

\* C15 amended: on the store as constructed, after createFee of one fee,
\* getFeesByMonth of the fee's month returns the fees the constructor seeded for
\* that month followed by the created fee: for "2024-11" the seeded fee and the
\* created one, for a month without a seeded fee the created one alone.
C15_FeesByMonthHasTheSeededFee ==
    [][\A month \in Months :
          FirstCallCreatesFeeOf(month) =>
              /\ getFeesByMonth(month)' = getFeesByMonth(month) \o <<ret'.value>>
              /\ getFeesByMonth("2024-11") = <<SeedFee(0)>>
              /\ getFeesByMonth("2024-12") = <<>>]_vars

\* a fee of November 2024 was created first, and the month has two fees
C15_Witness ==
    /\ ops = 1
    /\ ret.op = "createFee"
    /\ ret.arg.month = "2024-11"
    /\ Len(getFeesByMonth("2024-11")) = 2
    /\ getFeesByMonth("2024-11")[2] = ret.value

----------------------------------------------------------------------------

\* result is an array holding each live record of coll that satisfies Matches,
\* once, and nothing else
ExactlyThose(result, coll, Matches(_)) ==
    LET live == shadow[coll]
        matching == {k \in DOMAIN live : Matches(live[k])}
    IN  /\ result # TypeError
        /\ Len(result) = Cardinality(matching)
        /\ \A k \in matching :
              Occurrences(result, live[k]) =
                  Cardinality({j \in matching : live[j] = live[k]})

UserIds == {Uuid(1), Uuid(2), NoSuchId}
StudentIds == {Uuid(3), Uuid(4), NoSuchId}
ClassIdLists == {<<>>, <<Uuid(5)>>, <<NoSuchId, Uuid(5)>>}

\* C16 as claimed: every filter query returns exactly the stored records of its
\* kind that satisfy its predicate.
C16_FiltersReturnTheMatches ==
    /\ \A u \in UserIds :
          /\ ExactlyThose(getStudentsByTutor(u), "students", LAMBDA r : FieldIs(r, "tutorId", u))
          /\ ExactlyThose(getStudentsByParent(u), "students", LAMBDA r : FieldIs(r, "parentId", u))
          /\ ExactlyThose(getClassesByTutor(u), "classes", LAMBDA r : FieldIs(r, "tutorId", u))
          /\ ExactlyThose(getHomeworkByTutor(u), "homework", LAMBDA r : FieldIs(r, "tutorId", u))
          /\ ExactlyThose(getAnnouncementsByTutor(u), "announcements",
                          LAMBDA r : FieldIs(r, "tutorId", u))
          /\ ExactlyThose(getSystemLogsByAdmin(u), "systemLogs",
                          LAMBDA r : FieldIs(r, "adminId", u))
    /\ \A st \in StudentIds :
          /\ ExactlyThose(getAttendanceByStudent(st), "attendance",
                          LAMBDA r : FieldIs(r, "studentId", st))
          /\ ExactlyThose(getFeesByStudent(st), "fees", LAMBDA r : FieldIs(r, "studentId", st))
          /\ ExactlyThose(getSubmissionsByStudent(st), "homeworkSubmissions",
                          LAMBDA r : FieldIs(r, "studentId", st))
          /\ ExactlyThose(getClassesByStudent(st), "classes",
                          LAMBDA r : "studentIds" \in DOMAIN r /\ st \in Range(r.studentIds))
    /\ \A c \in ClassIds :
          /\ ExactlyThose(getFeesByClass(c), "fees", LAMBDA r : FieldIs(r, "classId", c))
          /\ ExactlyThose(getHomeworkByClass(c), "homework", LAMBDA r : FieldIs(r, "classId", c))
    /\ \A month \in Months :
          ExactlyThose(getFeesByMonth(month), "fees", LAMBDA r : FieldIs(r, "month", month))
    /\ \A h \in {Uuid(7), NoSuchId} :
          ExactlyThose(getSubmissionsByHomework(h), "homeworkSubmissions",
                       LAMBDA r : FieldIs(r, "homeworkId", h))
    /\ \A role \in {"admin", "tutor", "parent"} :
          ExactlyThose(getUsersByRole(role), "users", LAMBDA r : FieldIs(r, "role", role))
    /\ \A action \in {"fee_updated", "user_created"} :
          ExactlyThose(getSystemLogsByAction(action), "systemLogs",
                       LAMBDA r : FieldIs(r, "action", action))
    /\ \A category \in {"general", "branding"} :
          ExactlyThose(getSystemSettingsByCategory(category), "systemSettings",
                       LAMBDA r : FieldIs(r, "category", category))
    /\ \A cs \in ClassIdLists :
          ExactlyThose(getAnnouncementsForClasses(cs), "announcements",
                       LAMBDA r : /\ "classIds" \in DOMAIN r
                                  /\ Range(r.classIds) \cap Range(cs) # {})

----------------------------------------------------------------------------

\* a and b are timestamps of one calendar day
SameDay(a, b) ==
    \E n \in 0..2 : /\ n * DayMs <= a /\ a < (n + 1) * DayMs
                    /\ n * DayMs <= b /\ b < (n + 1) * DayMs

\* no date, and times of the first and the second day
AttendanceDates == {NullNumber, 1, DayMs, 2 * DayMs - 1}

\* C17: getAttendanceByClass(classId) without a date returns every attendance
\* record of the class; with a date, the records of the class whose date is on
\* the same calendar day as the given one, at whatever time of day.
C17_AttendanceByClassAndDay ==
    \A c \in ClassIds, date \in AttendanceDates :
        ExactlyThose(getAttendanceByClass(c, date), "attendance",
                     LAMBDA r : /\ r.classId = c
                                /\ date # NullNumber => SameDay(r.date, date))

\* records of two days are stored: a date of the first day, at another time
\* than the record's, selects the first day's record out of them
C17_Witness ==
    /\ Len(getAttendanceByClass(Uuid(5), NullNumber)) = 2
    /\ Len(getAttendanceByClass(Uuid(5), 1)) = 1
    /\ getAttendanceByClass(Uuid(5), 1)[1].date = 0
    /\ Len(getAttendanceByClass(Uuid(5), 2 * DayMs - 1)) = 1

----------------------------------------------------------------------------

\* C18: getAllSystemLogs returns every stored system log, once, and newest
\* first: a log is never followed by one with a later creation timestamp.
C18_SystemLogsNewestFirst ==
    LET logs == getAllSystemLogs IN
    /\ ExactlyThose(logs, "systemLogs", LAMBDA r : TRUE)
    /\ \A i, j \in 1..Len(logs) : i < j => logs[i].createdAt >= logs[j].createdAt

\* two logs were created at different times, and the one created last comes first
C18_Witness ==
    /\ Len(db.systemLogs) = 2
    /\ db.systemLogs[1].v.createdAt < db.systemLogs[2].v.createdAt
    /\ getAllSystemLogs[1] = db.systemLogs[2].v
    /\ getAllSystemLogs[2] = db.systemLogs[1].v

\* C19: system logs are append-only: no step removes a stored system log or
\* changes a field of it, so the logs of a state are still there, as they were,
\* in the next.
C19_SystemLogsAreAppendOnly ==
    [][\A i \in 1..Len(db.systemLogs) :
          /\ i <= Len(db'.systemLogs)
          /\ db'.systemLogs[i] = db.systemLogs[i]]_vars

\* a log was written and a record was deleted afterwards; the log is still there
C19_Witness ==
    /\ ret.op \in DeleteOps
    /\ ret.value = TRUE
    /\ Len(db.systemLogs) = 1
    /\ getSystemLog(db.systemLogs[1].k) = db.systemLogs[1].v

\* C20 as claimed: no two stored users have the same email, and
\* getUserByEmail(e) is the one user whose email is e.
C20_UserEmailIsUnique ==
    \A i, j \in 1..Len(db.users) :
        /\ i # j => db.users[i].v.email # db.users[j].v.email
        /\ getUserByEmail(db.users[i].v.email) = db.users[i].v

----------------------------------------------------------------------------
(* Timestamps *)

\* the records of a collection that a step keeps
Kept(coll) == MapKeys(db[coll]) \cap MapKeys(db'[coll])

\* C21 as claimed: no step changes the creation timestamp (createdAt,
\* assignedDate, submittedAt) of a record it keeps; updatedAt of a setting
\* changes in updateSystemSetting only, and every updateSystemSetting that
\* finds its setting stores the time of the update in it.
C21_CreationTimestampsAreSetOnce ==
    [][/\ \A c \in Collections \ {"systemSettings"} : \A k \in Kept(c) :
             MapGet(db'[c], k)[Timestamp(c)] = MapGet(db[c], k)[Timestamp(c)]
       /\ \A k \in Kept("systemSettings") :
             MapGet(db'.systemSettings, k).updatedAt # MapGet(db.systemSettings, k).updatedAt
                 => Called({"updateSystemSetting"}) /\ ret'.key = k
       /\ Called({"updateSystemSetting"}) /\ ret'.value # undefined
             => MapGet(db'.systemSettings, ret'.key).updatedAt = now']_vars


\* C22: the record a create stores and returns has an id that was never handed
\* out before and the clock reading of the call as its timestamp, whatever id
\* or timestamp the payload carries.
C22_CreateSynthesizesIdAndTimestamp ==
    [][Called(CreateOps) =>
          LET created == ret'.value IN
          /\ created.id \notin Range(issued)
          /\ created.id = ret'.key
          /\ "id" \in DOMAIN ret'.arg => created.id # ret'.arg.id
          /\ created[Timestamp(ret'.coll)] = now'
          /\ now' >= now
          /\ MapKeys(db'[ret'.coll]) = MapKeys(db[ret'.coll]) \cup {created.id}
          /\ MapGet(db'[ret'.coll], created.id) = created]_vars

\* a homework was created from a payload that carries the id of a stored record
\* and an assignedDate
C22_Witness ==
    /\ ret.op = "createHomework"
    /\ "id" \in DOMAIN ret.arg
    /\ "assignedDate" \in DOMAIN ret.arg
    /\ ret.arg.id \in Range(issued) \ {ret.key}
    /\ ret.arg.assignedDate # ret.value.assignedDate

----------------------------------------------------------------------------
(* Status fields *)

\* C23: an update whose payload carries a status finds no rule in its way: on
\* an existing record it succeeds whatever the stored status and the due date
\* are, and the stored and returned record then has the payload's status.
C23_NoStatusTransitionRules ==
    [][/\ Called(UpdateOps)
       /\ MapHas(db[ret'.coll], ret'.key)
       /\ "status" \in DOMAIN ret'.arg
       => /\ ret'.value # undefined
          /\ ret'.value.status = ret'.arg.status
          /\ MapGet(db'[ret'.coll], ret'.key) = ret'.value]_vars

\* the fee seeded as paid is pending after an updateFee, and updateHomework has
\* then stored a homework as completed that is not yet due
C23_Witness ==
    /\ SeedFee(0).status = "paid"
    /\ getFee(SeedFee(0).id) # undefined
    /\ getFee(SeedFee(0).id).status = "pending"
    /\ ret.op = "updateHomework"
    /\ ret.value # undefined
    /\ getHomework(ret.key).status = "completed"
    /\ getHomework(ret.key).dueDate > now

----------------------------------------------------------------------------
(* getAdminDashboardStats as a read *)

StatsCall == Called({"getAdminDashboardStats"})

\* C24 as claimed: getAdminDashboardStats leaves every collection as it is, and
\* a call that directly follows another call, with no mutation in between,
\* returns what that call returned.
C24_StatsDependOnTheStoreOnly ==
    [][StatsCall =>
          /\ db' = db
          /\ ret.op = "getAdminDashboardStats" => ret'.value = ret.value]_vars

\* C24 amended: getAdminDashboardStats leaves every collection as it is; what it
\* returns is the fold of the collections as they are at the call, with
\* monthlyRevenue taken for the month of the clock at the call; and a call that
\* directly follows another call in the same month returns what that call
\* returned.
C24_StatsDependOnTheStoreAndTheMonth ==
    [][StatsCall =>
          /\ db' = db
          /\ \A t \in NewDate : t = now' => ret'.value = AdminDashboardStats(t)'
          /\ ret'.value.totalUsers = Len(db.users)
          /\ ret'.value.totalStudents = Len(db.students)
          /\ ret'.value.totalClasses = Len(db.classes)
          /\ ret.op = "getAdminDashboardStats" /\ toISOMonth(now') = toISOMonth(now)
                => ret'.value = ret.value]_vars

\* a call made after a createUser and after the month has turned: it counts the
\* new user, and the fee that was paid for the month before is in the total
\* revenue and not in the monthly revenue
C24_Witness ==
    /\ ret.op = "getAdminDashboardStats"
    /\ ret.value.totalUsers = Len(seedData(0).users) + 1
    /\ toISOMonth(now) # toISOMonth(0)
    /\ ret.value.totalRevenue = parseFloat(SeedFee(0).amount)
    /\ ret.value.monthlyRevenue = 0

----------------------------------------------------------------------------
(* Concurrent DELETE /api/admin/users/:id *)

\* handler p has answered a DELETE for user u
Answered(p, u) ==
    /\ pc[p] = "idle"
    /\ "status" \in DOMAIN frame[p]
    /\ frame[p].id = u

DeletedLogs(u) ==
    {k \in MapKeys(db.systemLogs) :
        /\ MapGet(db.systemLogs, k).action = "user_deleted"
        /\ MapGet(db.systemLogs, k).targetId = u}

\* C25: for a user the store starts with, however the steps of the DELETE
\* handlers interleave: at most one 'user_deleted' log is ever written for the
\* user; a handler that has answered 204 has left exactly one; and when two
\* requests for the user were made and both are answered, one answer is 204,
\* the other is 404, and there is exactly one log.
C25_ConcurrentDeletes ==
    \A u \in MapKeys(seedData(0).users) :
        /\ Cardinality(DeletedLogs(u)) <= 1
        /\ \A p \in Procs :
              Answered(p, u) /\ frame[p].status = 204 =>
                  /\ Cardinality(DeletedLogs(u)) = 1
                  /\ ~MapHas(db.users, u)
        /\ (ops = Cardinality(Procs) /\ \A p \in Procs : Answered(p, u)) =>
              /\ {frame[p].status : p \in Procs} = {204, 404}
              /\ Cardinality(DeletedLogs(u)) = 1

\* both handlers found the user before either deleted it; one was answered 204
\* and the other, whose deleteUser returned false, 404
C25_Witness ==
    \E u \in MapKeys(seedData(0).users) : \E p, q \in Procs :
        /\ Answered(p, u) /\ frame[p].status = 204
        /\ Answered(q, u) /\ frame[q].status = 404
        /\ frame[q].user # undefined
        /\ ~frame[q].deleted
        /\ Cardinality(DeletedLogs(u)) = 1

----------------------------------------------------------------------------
(* Concurrent PUT /api/fees/:id *)

\* handler p has answered a PUT for fee id
FeeAnswered(p, id) ==
    /\ pc[p] = "idle"
    /\ "updates" \in DOMAIN frame[p]
    /\ frame[p].id = id

\* C26: every step that changes a stored fee is the update of one request
\* applied to the record as it is stored at that step: the fields of the
\* request's payload take the payload's values and every other field stays.
\* So when two requests on one fee with disjoint payloads were made and both
\* are answered, the stored fee carries the values of both.
C26_NoLostUpdate ==
    [][/\ \A id \in MapKeys(db.fees) :
             LET before == MapGet(db.fees, id)
                 after == MapGet(db'.fees, id)
             IN  after # before =>
                     \E p \in Procs :
                         /\ pc[p] = "idle" /\ pc'[p] = "awaitUpdateFee"
                         /\ frame'[p].id = id
                         /\ OnlyChanged(before, after, DOMAIN frame'[p].updates)
                         /\ \A f \in DOMAIN frame'[p].updates :
                                after[f] = frame'[p].updates[f]
       /\ \A id \in MapKeys(db'.fees) :
             (/\ ops' = Cardinality(Procs)
              /\ \A p \in Procs : FeeAnswered(p, id)'
              /\ \A p, q \in Procs :
                    p # q => DOMAIN frame'[p].updates \cap DOMAIN frame'[q].updates = {})
             => \A p \in Procs : \A f \in DOMAIN frame'[p].updates :
                    MapGet(db'.fees, id)[f] = frame'[p].updates[f]]_vars

\* two requests on the seeded fee, one with a status and one with a paidDate,
\* were both in flight at once, and the fee has both values
C26_Witness ==
    \E p, q \in Procs :
        /\ pc[p] = "awaitUpdateFee" /\ pc[q] = "awaitUpdateFee"
        /\ frame[p].id = SeedFee(0).id /\ frame[q].id = SeedFee(0).id
        /\ frame[p].updates = [status |-> "overdue"]
        /\ frame[q].updates = [paidDate |-> DayMs]
        /\ getFee(SeedFee(0).id).status = "overdue"
        /\ getFee(SeedFee(0).id).paidDate = DayMs
        /\ frame[p].fee # frame[q].fee

----------------------------------------------------------------------------
(* The admin, login and report routes, each handler run from its request to  *)
(* its response.                                                              *)

\* insertUserSchema and insertSystemSettingSchema: parse() throws unless every
\* required column is there, and drops the keys the schema does not name.
UserRequired == {"email", "password", "name", "role"}
UserColumns == UserRequired \cup {"avatar", "isActive", "lastLogin"}
SettingRequired == {"key", "value"}
SettingColumns == SettingRequired \cup {"description", "category", "updatedBy"}

SchemaThrows(required, body) == ~(required \subseteq DOMAIN body)

SchemaParse(columns, body) == [f \in (DOMAIN body) \cap columns |-> body[f]]

safeUserKeepingPassword(user) == user

\* res.json({ ...user, password: undefined }): JSON leaves out a member whose
\* value is undefined
safeUser(user) == [f \in (DOMAIN user) \ {"password"} |-> user[f]]

\* await storage.createSystemLog(log), called when the handler's mutation has
\* left the store as dbAfter (shadow as shAfter) at time t, with the ids of
\* `fresh` handed out by it
Logged(dbAfter, shAfter, fresh, t, log) ==
    \E t2 \in {t, t + 1} :
        LET newLog == Spread(log, [id |-> randomUUID(uuidCount + Len(fresh)),
                                   createdAt |-> t2])
        IN
        /\ db' = [dbAfter EXCEPT !.systemLogs = MapSet(@, newLog.id, newLog)]
        /\ shadow' = ShadowAll(shAfter, "systemLogs", <<newLog>>)
        /\ uuidCount' = uuidCount + Len(fresh) + 1
        /\ issued' = issued \o fresh \o <<newLog.id>>
        /\ now' = t2

Unanswered(op, key, body, status, message) ==
    /\ ret' = Response(op, key, body, status, [message |-> message])
    /\ UNCHANGED <<db, uuidCount, now, issued, shadow>>

\* app.post("/api/admin/users")
PostAdminUser(body) ==
    /\ ops < MaxOps
    /\ ops' = ops + 1
    /\ UNCHANGED <<pc, frame>>
    /\ IF SchemaThrows(UserRequired, body)
       THEN Unanswered("POST /api/admin/users", NoSuchId, body, 400, "Invalid user data")
       ELSE \E t \in NewDate :
              LET user == Spread(SchemaParse(UserColumns, body),
                                 [id |-> randomUUID(uuidCount), isActive |-> TRUE,
                                  lastLogin |-> NullNumber, createdAt |-> t])
              IN
              /\ Logged([db EXCEPT !.users = MapSet(@, user.id, user)],
                        ShadowSet("users", user.id, user), <<user.id>>, t,
                        adminLog(body, "user_created", "user", user.id,
                                 [userRole |-> user.role, userName |-> user.name]))
              /\ ret' = Response("POST /api/admin/users", user.id, body, 201,
                                 safeUser(user))

\* app.put("/api/admin/users/:id/status")
PutAdminUserStatus(id, body) ==
    LET existing == MapGet(db.users, id)
        user == Spread(existing, [isActive |-> body.isActive])
    IN
    /\ ops < MaxOps
    /\ ops' = ops + 1
    /\ UNCHANGED <<pc, frame>>
    /\ IF existing = undefined
       THEN Unanswered("PUT /api/admin/users/:id/status", id, body, 404, "User not found")
       ELSE /\ Logged([db EXCEPT !.users = MapSet(@, id, user)],
                      ShadowSet("users", id, user), <<>>, now,
                      adminLog(body,
                               IF body.isActive THEN "user_activated"
                               ELSE "user_deactivated",
                               "user", user.id,
                               [userName |-> user.name, newStatus |-> body.isActive]))
            /\ ret' = Response("PUT /api/admin/users/:id/status", id, body, 200,
                               safeUser(user))

\* app.delete("/api/admin/users/:id")
DeleteAdminUser(id, body) ==
    LET user == getUser(id) IN
    /\ ops < MaxOps
    /\ ops' = ops + 1
    /\ UNCHANGED <<pc, frame>>
    /\ IF user = undefined \/ ~MapHas(db.users, id)
       THEN Unanswered("DELETE /api/admin/users/:id", id, body, 404, "User not found")
       ELSE /\ Logged([db EXCEPT !.users = MapDelete(@, id)],
                      ShadowDel("users", id), <<>>, now,
                      adminLog(body, "user_deleted", "user", id,
                               [userName |-> user.name, userRole |-> user.role]))
            /\ ret' = Response("DELETE /api/admin/users/:id", id, body, 204, <<>>)

\* app.post("/api/admin/settings")
PostAdminSetting(body) ==
    /\ ops < MaxOps
    /\ ops' = ops + 1
    /\ UNCHANGED <<pc, frame>>
    /\ IF SchemaThrows(SettingRequired, body)
       THEN Unanswered("POST /api/admin/settings", NoSuchId, body, 400,
                       "Invalid setting data")
       ELSE \E t \in NewDate :
              LET setting == Spread(SchemaParse(SettingColumns, body),
                                    [id |-> randomUUID(uuidCount), updatedAt |-> t])
              IN
              /\ Logged([db EXCEPT !.systemSettings = MapSet(@, setting.id, setting)],
                        ShadowSet("systemSettings", setting.id, setting),
                        <<setting.id>>, t,
                        adminLog(body, "setting_created", "setting", setting.id,
                                 [key |-> setting.key, category |-> setting.category]))
              /\ ret' = Response("POST /api/admin/settings", setting.id, body, 201,
                                 setting)

\* app.put("/api/admin/settings/:id"): updates = req.body
PutAdminSetting(id, body) ==
    LET existing == MapGet(db.systemSettings, id) IN
    /\ ops < MaxOps
    /\ ops' = ops + 1
    /\ UNCHANGED <<pc, frame>>
    /\ IF existing = undefined
       THEN Unanswered("PUT /api/admin/settings/:id", id, body, 404, "Setting not found")
       ELSE \E t \in NewDate :
              LET setting == Spread(Spread(existing, body), [updatedAt |-> t]) IN
              /\ Logged([db EXCEPT !.systemSettings = MapSet(@, id, setting)],
                        ShadowSet("systemSettings", id, setting), <<>>, t,
                        adminLog(body, "setting_updated", "setting", setting.id,
                                 [key |-> setting.key, newValue |-> setting.value]))
              /\ ret' = Response("PUT /api/admin/settings/:id", id, body, 200, setting)

\* a route that reads the store and answers
Answer(op, arg, status, value) ==
    /\ ops < MaxOps
    /\ ops' = ops + 1
    /\ ret' = Response(op, NoSuchId, arg, status, value)
    /\ UNCHANGED <<db, uuidCount, now, issued, shadow, pc, frame>>

\* app.get("/api/admin/users"); a request without ?role= has role ""
GetAdminUsers(role) ==
    LET users == IF role # "" THEN getUsersByRole(role) ELSE getAllUsers IN
    Answer("GET /api/admin/users", role, 200,
           [i \in 1..Len(users) |-> safeUser(users[i])])

\* app.post("/api/auth/login")
PostLogin(body) ==
    LET user == getUserByEmail(body.email) IN
    IF user = undefined \/ user.password # body.password \/ user.role # body.role
    THEN Answer("POST /api/auth/login", body, 401, [message |-> "Invalid credentials"])
    ELSE Answer("POST /api/auth/login", body, 200, [user |-> safeUser(user)])

\* fees.filter(fee => fee.status === status)
feesWithStatus(fees, status) == SelectSeq(fees, LAMBDA fee : FieldIs(fee, "status", status))

\* the body of GET /api/admin/reports/financial when the clock reads t
FinancialReport(t) ==
    LET fees == getAllFees
        currentMonth == toISOMonth(t)
    IN
    [totalRevenue |-> reduceAmounts(feesWithStatus(fees, "paid")),
     monthlyRevenue |->
         reduceAmounts(SelectSeq(fees, LAMBDA fee : /\ FieldIs(fee, "status", "paid")
                                                    /\ FieldIs(fee, "month", currentMonth))),
     pendingAmount |-> reduceAmounts(feesWithStatus(fees, "pending")),
     overdueAmount |-> reduceAmounts(feesWithStatus(fees, "overdue")),
     totalFees |-> Len(fees),
     paidFees |-> Len(feesWithStatus(fees, "paid")),
     pendingFees |-> Len(feesWithStatus(fees, "pending")),
     overdueFees |-> Len(feesWithStatus(fees, "overdue"))]

\* the body of GET /api/dashboard/stats when the clock reads t; avgAttendance
\* is the constant 94.2, in tenths
DashboardStats(t) ==
    LET fees == getAllFees
        currentMonth == toISOMonth(t)
        monthlyFees == SelectSeq(fees, LAMBDA fee : FieldIs(fee, "month", currentMonth))
    IN
    [totalStudents |-> Len(getAllStudents),
     classesToday |-> Len(getAllClasses),
     monthlyRevenue |-> reduceAmounts(feesWithStatus(monthlyFees, "paid")),
     avgAttendance |-> 942]

\* a report route: it reads the clock and the store and answers
Report(op, t, value) ==
    /\ ops < MaxOps
    /\ ops' = ops + 1
    /\ now' = t
    /\ ret' = Response(op, NoSuchId, <<>>, 200, value)
    /\ UNCHANGED <<db, uuidCount, issued, shadow, pc, frame>>

\* app.get("/api/admin/reports/financial")
GetFinancialReport ==
    \E t \in NewDate : Report("GET /api/admin/reports/financial", t, FinancialReport(t))

\* app.get("/api/dashboard/stats")
GetDashboardStats ==
    \E t \in NewDate : Report("GET /api/dashboard/stats", t, DashboardStats(t))

\* app.get("/api/admin/dashboard/stats")
GetAdminDashboardStats ==
    \E t \in NewDate :
        Report("GET /api/admin/dashboard/stats", t, AdminDashboardStats(t))

\* request bodies: one the schema accepts, carrying the admin's id and fields
\* the handler sets itself, and one that lacks required columns
AdminUserBodies ==
    {[email |-> "new.tutor@edumanage.com", password |-> "welcome1", name |-> "Nia Tutor",
      role |-> "tutor", isActive |-> FALSE, adminId |-> Uuid(1), id |-> Uuid(2)],
     [email |-> "nobody@edumanage.com"]}

StatusBodies == {[isActive |-> FALSE, adminId |-> Uuid(1)], [isActive |-> TRUE]}

AdminSettingBodies ==
    {[key |-> "theme", value |-> "dark", category |-> "ui", adminId |-> Uuid(1)],
     [key |-> "theme"]}

PutSettingBodies == {[value |-> "light"], [value |-> "light", id |-> Uuid(1)]}

Roles == {"", "tutor"}

LoginBodies ==
    {[email |-> e, password |-> p, role |-> r] :
        e \in {"tutor@edumanage.com", "nobody@edumanage.com"},
        p \in {"password123", "admin123"},
        r \in {"tutor", "admin"}}

NextAdmin ==
    \/ \E body \in AdminUserBodies : PostAdminUser(body)
    \/ \E id \in Ids("users"), body \in StatusBodies : PutAdminUserStatus(id, body)
    \/ \E id \in Ids("users"), body \in DeleteBodies : DeleteAdminUser(id, body)
    \/ \E body \in AdminSettingBodies : PostAdminSetting(body)
    \/ \E id \in Ids("systemSettings"), body \in PutSettingBodies :
          PutAdminSetting(id, body)
    \/ \E role \in Roles : GetAdminUsers(role)
    \/ \E body \in LoginBodies : PostLogin(body)
    \/ GetFinancialReport
    \/ GetDashboardStats
    \/ GetAdminDashboardStats
    \/ \E user \in InsertUsers : createUser(user)
    \/ \E id \in Ids("users"), user \in UserPatches : updateUser(id, user)
    \/ \E fee \in InsertFees : createFee(fee)
    \/ \E id \in Ids("fees"), fee \in FeePatches : updateFee(id, fee)
    \/ \E id \in Ids("fees"), updates \in FeeBodies : PutFee(id, updates)

SpecAdmin == Init /\ [][NextAdmin]_vars

----------------------------------------------------------------------------
(* Audit logs of the admin routes *)

AuditedRoutes ==
    {"POST /api/admin/users", "PUT /api/admin/users/:id/status",
     "DELETE /api/admin/users/:id", "POST /api/admin/settings",
     "PUT /api/admin/settings/:id"}

AuditedRequest == ops' = ops + 1 /\ ret'.op \in AuditedRoutes

\* the collection an audited route works on
AuditedCollection(op) ==
    IF op \in {"POST /api/admin/settings", "PUT /api/admin/settings/:id"}
    THEN "systemSettings" ELSE "users"

\* the step appends one log to the logs there were, for the record stored
\* under `key`, and the log is not older than the write it reports
OneLogFor(key, written) ==
    /\ Len(db'.systemLogs) = Len(db.systemLogs) + 1
    /\ SubSeq(db'.systemLogs, 1, Len(db.systemLogs)) = db.systemLogs
    /\ LET log == db'.systemLogs[Len(db'.systemLogs)].v IN
       /\ log.targetId = key
       /\ log.createdAt >= written
       /\ log.createdAt = now'

\* C27 as claimed: a request to an audited route that is answered 200, 201 or
\* 204 has changed the record stored under the id of the request (for a POST,
\* stored the record under a new id) and appended exactly one log, whose
\* targetId is that id; a request answered 404 has appended none and changed
\* nothing.
C27_AdminRoutesAreAudited ==
    [][AuditedRequest =>
          LET coll == AuditedCollection(ret'.op)
              key == IF ret'.status = 201
                     THEN CHOOSE k \in MapKeys(db'[coll]) : ~MapHas(db[coll], k)
                     ELSE ret'.key
          IN
          /\ ret'.status \in {200, 201, 204} =>
                /\ MapGet(db'[coll], key) # MapGet(db[coll], key)
                   \/ ret'.op = "PUT /api/admin/users/:id/status"
                /\ OneLogFor(key, now)
          /\ ret'.status \in {400, 404} => db' = db]_vars

----------------------------------------------------------------------------
(* Active users *)

\* C28: createUser stores and returns the user with isActive true and lastLogin
\* null whatever its payload says, and a step that makes an active user
\* inactive is an updateUserStatus or an updateUser on that user.
C28_CreateUserIsActive ==
    [][/\ Called({"createUser"}) =>
             /\ MapGet(db'.users, ret'.key) = ret'.value
             /\ FieldIs(ret'.value, "isActive", TRUE)
             /\ FieldIs(ret'.value, "lastLogin", NullNumber)
       /\ \A k \in Kept("users") :
             (/\ FieldIs(MapGet(db.users, k), "isActive", TRUE)
              /\ ~FieldIs(MapGet(db'.users, k), "isActive", TRUE))
             => Called({"updateUserStatus", "updateUser"}) /\ ret'.key = k]_vars

\* the user created from the payload that says inactive and carries a last
\* login has been made inactive by an updateUserStatus
C28_Witness ==
    /\ ret.op = "updateUserStatus"
    /\ ret.value # undefined
    /\ ret.key \notin MapKeys(seedData(0).users)
    /\ \E user \in InsertUsers :
          /\ "isActive" \in DOMAIN user /\ ~user.isActive
          /\ user.lastLogin # NullNumber
          /\ getUser(ret.key).email = user.email
    /\ getUser(ret.key).isActive = FALSE
    /\ getUser(ret.key).lastLogin = NullNumber

----------------------------------------------------------------------------
(* Passwords *)

UserRoutes ==
    {"POST /api/auth/login", "GET /api/admin/users", "POST /api/admin/users",
     "PUT /api/admin/users/:id/status"}

\* the user objects in the body of a response of one of the user routes
UsersIn(response) ==
    CASE response.status \notin {200, 201} -> {}
      [] response.op = "POST /api/auth/login" -> {response.value.user}
      [] response.op = "GET /api/admin/users" -> Range(response.value)
      [] OTHER -> {response.value}

\* the first stored user with this email, as an index into the users map (0: none)
FirstWithEmail(email) ==
    IF \E i \in 1..Len(db.users) : db.users[i].v.email = email
    THEN CHOOSE i \in 1..Len(db.users) :
            /\ db.users[i].v.email = email
            /\ \A j \in 1..(i - 1) : db.users[j].v.email # email
    ELSE 0

\* C29: a user object in a response of the login and admin user routes has no
\* password member, and is otherwise a user as stored after the request; login
\* answers 200 when the first stored user with the given email has the given
\* password and the given role, and 401 in every other case.
C29_NoPasswordInResponses ==
    [][ops' = ops + 1 /\ ret'.op \in UserRoutes =>
          /\ \A user \in UsersIn(ret') :
                /\ "password" \notin DOMAIN user
                /\ \E i \in 1..Len(db'.users) :
                      /\ "password" \in DOMAIN db'.users[i].v
                      /\ DOMAIN user = (DOMAIN db'.users[i].v) \ {"password"}
                      /\ \A f \in DOMAIN user : user[f] = db'.users[i].v[f]
          /\ ret'.op = "POST /api/auth/login" =>
                LET i == FirstWithEmail(ret'.arg.email)
                    matches == /\ i # 0
                               /\ db.users[i].v.password = ret'.arg.password
                               /\ db.users[i].v.role = ret'.arg.role
                IN  /\ ret'.status = IF matches THEN 200 ELSE 401
                    /\ matches => \A user \in UsersIn(ret') : user.id = db.users[i].v.id
                    /\ db' = db]_vars

\* a login with the right password and role was answered 200 with the user,
\* who is stored with that password
C29_Witness ==
    /\ ret.op = "POST /api/auth/login"
    /\ ret.status = 200
    /\ getUser(ret.value.user.id) # undefined
    /\ getUser(ret.value.user.id).password = ret.arg.password
    /\ "password" \notin DOMAIN ret.value.user

----------------------------------------------------------------------------
(* The revenue figures of the three routes *)

\* the revenue figures of the financial report, of getAdminDashboardStats and
\* of the dashboard are the same when computed at the same time
RevenuesAgree(t) ==
    /\ FinancialReport(t).totalRevenue = AdminDashboardStats(t).totalRevenue
    /\ FinancialReport(t).monthlyRevenue = AdminDashboardStats(t).monthlyRevenue
    /\ DashboardStats(t).monthlyRevenue = AdminDashboardStats(t).monthlyRevenue

\* C30 as claimed: in every state of the store the three routes agree on the
\* revenue figures, and the financial report counts every fee as paid, pending
\* or overdue.
C30_RevenueFiguresAgree ==
    \A t \in NewDate :
        /\ RevenuesAgree(t)
        /\ FinancialReport(t).paidFees + FinancialReport(t).pendingFees
               + FinancialReport(t).overdueFees = FinancialReport(t).totalFees

============================================================================
